---- MODULE Spec2Model ----
(***************************************************************************)
(* Model of the account state store of the Obsidian node: the in-memory    *)
(* StateDB (objects, dirty/deleted sets, journal, revisions) over the      *)
(* rawdb persistent layer, and the LevelDB-backed LevelDBStateDB.          *)
(***************************************************************************)
EXTENDS Integers, Sequences, FiniteSets, TLC

\* ------------------------------------------------------------------ bounds
\* Number of store operations explored in one behaviour.
MaxOps == 3
\* Number of revision ids Snapshot may issue in one behaviour.
MaxRev == 2

\* Inputs of the operations.
Addrs == {1, 2}
Keys == {1}
Amounts == {1, 2}
Nonces == {0, 1}
Codes == {<<>>, <<7>>}
Values == {0, 1}
RevIds == 0..MaxRev

\* ------------------------------------------------------------------ hashes
\* crypto.Keccak256 / Keccak256Hash: collision-free digest of the input.
Keccak256(x) == <<"keccak", x>>

\* common.Hash{}: the all-zero root hash.
ZeroRootHash == <<"zero">>

emptyCodeHash == Keccak256(<<>>)

emptyRoot == <<"56e81f171bcc55a6ff8345e692c0f86e5b48e01b996cadc001622fb5e363b421">>

\* ------------------------------------------------------------------ rlp
\* rlp.EncodeToBytes(&obj.data): an unsigned encoding; a negative big
\* integer has no encoding and the call returns an error.
EncodeAccount(data) ==
    IF data.Balance < 0
    THEN [err |-> TRUE, bytes |-> <<>>]
    ELSE [err |-> FALSE,
          bytes |-> <<"rlp", data.Nonce, data.Balance, data.Root, data.CodeHash>>]

\* rlp.DecodeBytes(data, &account)
DecodeAccount(bytes) ==
    IF Len(bytes) = 5 /\ bytes[1] = "rlp"
    THEN [err |-> FALSE,
          account |-> [Nonce |-> bytes[2], Balance |-> bytes[3],
                       Root |-> bytes[4], CodeHash |-> bytes[5]]]
    ELSE [err |-> TRUE,
          account |-> [Nonce |-> 0, Balance |-> 0, Root |-> emptyRoot,
                       CodeHash |-> <<>>]]

\* ------------------------------------------------------------------ rawdb
\* The persistent key/value layer: a map from byte-string keys to values,
\* keys partitioned by a prefix per data category.
AccountKey(addrHash) == <<"a", addrHash>>
CodeKey(codeHash) == <<"c", codeHash>>
StorageKey(addrHash, keyHash) == <<"s", addrHash, keyHash>>

DBHas(db, key) == key \in DOMAIN db
DBPut(db, key, val) == (key :> val) @@ db
DBDelete(db, key) == [k \in (DOMAIN db) \ {key} |-> db[k]]

EmptyDB == [k \in {} |-> <<>>]

ReadAccountData(db, addrHash) ==
    IF DBHas(db, AccountKey(addrHash))
    THEN [found |-> TRUE, data |-> db[AccountKey(addrHash)]]
    ELSE [found |-> FALSE, data |-> <<>>]
DeleteAccountData(db, addrHash) == DBDelete(db, AccountKey(addrHash))
ReadCode(db, codeHash) ==
    IF DBHas(db, CodeKey(codeHash)) THEN db[CodeKey(codeHash)] ELSE <<>>
WriteCode(db, codeHash, code) == DBPut(db, CodeKey(codeHash), code)
ReadStorageData(db, addrHash, keyHash) ==
    IF DBHas(db, StorageKey(addrHash, keyHash))
    THEN [found |-> TRUE, data |-> db[StorageKey(addrHash, keyHash)]]
    ELSE [found |-> FALSE, data |-> 0]
WriteStorageData(db, addrHash, keyHash, value) ==
    DBPut(db, StorageKey(addrHash, keyHash), value)
DeleteStorageData(db, addrHash, keyHash) ==
    DBDelete(db, StorageKey(addrHash, keyHash))

\* ------------------------------------------------------------------ StateDB
EmptyStorage == [k \in {} |-> 0]
NoObjects == [a \in {} |-> 0]

\* NewWithDB (hasDB = TRUE) and NewMemoryStateDB (hasDB = FALSE).
NewStateDB(hasDB) ==
    [hasDB |-> hasDB,
     root |-> emptyRoot,
     objects |-> NoObjects,
     dirty |-> {},
     deleted |-> {},
     journal |-> <<>>,
     validRevisions |-> <<>>,
     nextRevisionId |-> 0]

\* The object createObject allocates.
NewObject(addr) ==
    [address |-> addr,
     addrHash |-> Keccak256(addr),
     data |-> [Nonce |-> 0, Balance |-> 0, Root |-> emptyRoot,
               CodeHash |-> emptyCodeHash],
     code |-> <<>>,
     codeHash |-> <<>>,
     dirty |-> FALSE,
     suicided |-> FALSE,
     deleted |-> FALSE,
     originStorage |-> EmptyStorage,
     pendingStorage |-> EmptyStorage,
     dirtyStorage |-> EmptyStorage]

HasObj(s, addr) == addr \in DOMAIN s.objects

SetObj(s, addr, obj) == [s EXCEPT !.objects = (addr :> obj) @@ s.objects]

createObject(s, addr) == SetObj(s, addr, NewObject(addr))

\* GetOrNewStateObject: the store after the call; the object is
\* s.objects[addr] of the result.
GetOrNewStateObject(s, addr) ==
    IF ~HasObj(s, addr) \/ s.objects[addr].deleted
    THEN createObject(s, addr)
    ELSE s

\* loadStateObject that takes the first account record of the database when
\* the address has none of its own (a prefix scan in place of a get).
loadStateObjectByScan(s, db, addr) ==
    LET have == {a \in Addrs : DBHas(db, AccountKey(Keccak256(a)))}
        from == IF addr \in have \/ have = {} THEN addr
                ELSE CHOOSE a \in have : \A b \in have : a <= b
        rec == ReadAccountData(db, Keccak256(from))
        dec == DecodeAccount(rec.data)
    IN  IF ~rec.found \/ dec.err
        THEN [found |-> FALSE, s |-> s]
        ELSE [found |-> TRUE,
              s |-> SetObj(s, addr, [NewObject(addr) EXCEPT !.data = dec.account])]

\* loadStateObject: [found, s]; when found the object is s.objects[addr].
loadStateObject(s, db, addr) ==
    LET addrHash == Keccak256(addr)
        rec == ReadAccountData(db, addrHash)
        dec == DecodeAccount(rec.data)
        account == dec.account
        hasCode == Len(account.CodeHash) > 0 /\ account.CodeHash # emptyCodeHash
        obj == [NewObject(addr) EXCEPT
                  !.data = account,
                  !.code = IF hasCode THEN ReadCode(db, account.CodeHash) ELSE <<>>,
                  !.codeHash = IF hasCode THEN account.CodeHash ELSE <<>>]
    IN  IF ~rec.found \/ dec.err
        THEN [found |-> FALSE, s |-> s]
        ELSE [found |-> TRUE, s |-> SetObj(s, addr, obj)]

\* getStateObject: [found, s]; when found the object is s.objects[addr].
getStateObject(s, db, addr) ==
    IF HasObj(s, addr) /\ ~s.objects[addr].deleted
    THEN [found |-> TRUE, s |-> s]
    ELSE IF s.hasDB
         THEN loadStateObject(s, db, addr)
         ELSE [found |-> FALSE, s |-> s]

MarkDirty(s, addr) ==
    [s EXCEPT !.objects[addr].dirty = TRUE, !.dirty = @ \cup {addr}]

\* The assignment to obj.data.Balance and the two dirty marks after it.
WriteBalance(s, addr, balance) ==
    MarkDirty([s EXCEPT !.objects[addr].data.Balance = balance], addr)

SetBalance(s, addr, amount) ==
    WriteBalance(GetOrNewStateObject(s, addr), addr, amount)

AddBalance(s, addr, amount) ==
    LET s1 == GetOrNewStateObject(s, addr)
    IN  WriteBalance(s1, addr, s1.objects[addr].data.Balance + amount)

SubBalance(s, addr, amount) ==
    LET s1 == GetOrNewStateObject(s, addr)
    IN  WriteBalance(s1, addr, s1.objects[addr].data.Balance - amount)

SetNonce(s, addr, nonce) ==
    LET s1 == GetOrNewStateObject(s, addr)
    IN  MarkDirty([s1 EXCEPT !.objects[addr].data.Nonce = nonce], addr)

SetCode(s, addr, code) ==
    LET s1 == GetOrNewStateObject(s, addr)
    IN  MarkDirty([s1 EXCEPT !.objects[addr].code = code,
                             !.objects[addr].codeHash = Keccak256(code),
                             !.objects[addr].data.CodeHash = Keccak256(code)], addr)

SetState(s, addr, key, value) ==
    LET s1 == GetOrNewStateObject(s, addr)
    IN  MarkDirty([s1 EXCEPT !.objects[addr].dirtyStorage = (key :> value) @@ @], addr)

CreateAccount(s, addr) == GetOrNewStateObject(s, addr)

\* A Suicide that looks for the account in the live map only.
SuicideLiveOnly(s, db, addr) ==
    IF ~(HasObj(s, addr) /\ ~s.objects[addr].deleted)
    THEN [ret |-> FALSE, s |-> s]
    ELSE [ret |-> TRUE,
          s |-> [s EXCEPT !.objects[addr].suicided = TRUE,
                          !.objects[addr].data.Balance = 0,
                          !.dirty = @ \cup {addr}]]

\* Suicide: [ret, s].
Suicide(s, db, addr) ==
    LET g == getStateObject(s, db, addr)
    IN  IF ~g.found
        THEN [ret |-> FALSE, s |-> g.s]
        ELSE [ret |-> TRUE,
              s |-> [g.s EXCEPT !.objects[addr].suicided = TRUE,
                                !.objects[addr].data.Balance = 0,
                                !.dirty = @ \cup {addr}]]

\* ------------------------------------------------------------------ reads
\* Each read is [ret, s]: getStateObject may cache a loaded object.
GetBalance(s, db, addr) ==
    LET g == getStateObject(s, db, addr)
    IN  [ret |-> IF g.found THEN g.s.objects[addr].data.Balance ELSE 0, s |-> g.s]

GetNonce(s, db, addr) ==
    LET g == getStateObject(s, db, addr)
    IN  [ret |-> IF g.found THEN g.s.objects[addr].data.Nonce ELSE 0, s |-> g.s]

GetCode(s, db, addr) ==
    LET g == getStateObject(s, db, addr)
    IN  [ret |-> IF g.found THEN g.s.objects[addr].code ELSE <<>>, s |-> g.s]

\* GetState that looks in the pending layer before the working one.
GetStatePendingFirst(s, db, addr, key) ==
    LET g == getStateObject(s, db, addr)
        obj == g.s.objects[addr]
        rd == ReadStorageData(db, obj.addrHash, Keccak256(key))
    IN  IF ~g.found THEN [ret |-> 0, s |-> g.s]
        ELSE IF key \in DOMAIN obj.pendingStorage
             THEN [ret |-> obj.pendingStorage[key], s |-> g.s]
        ELSE IF key \in DOMAIN obj.dirtyStorage
             THEN [ret |-> obj.dirtyStorage[key], s |-> g.s]
        ELSE IF key \in DOMAIN obj.originStorage
             THEN [ret |-> obj.originStorage[key], s |-> g.s]
        ELSE IF g.s.hasDB /\ rd.found
             THEN [ret |-> rd.data,
                   s |-> [g.s EXCEPT !.objects[addr].originStorage =
                                        (key :> rd.data) @@ @]]
        ELSE [ret |-> 0, s |-> g.s]

GetState(s, db, addr, key) ==
    LET g == getStateObject(s, db, addr)
        obj == g.s.objects[addr]
        rd == ReadStorageData(db, obj.addrHash, Keccak256(key))
    IN  IF ~g.found THEN [ret |-> 0, s |-> g.s]
        ELSE IF key \in DOMAIN obj.dirtyStorage
             THEN [ret |-> obj.dirtyStorage[key], s |-> g.s]
        ELSE IF key \in DOMAIN obj.pendingStorage
             THEN [ret |-> obj.pendingStorage[key], s |-> g.s]
        ELSE IF key \in DOMAIN obj.originStorage
             THEN [ret |-> obj.originStorage[key], s |-> g.s]
        ELSE IF g.s.hasDB /\ rd.found
             THEN [ret |-> rd.data,
                   s |-> [g.s EXCEPT !.objects[addr].originStorage =
                                        (key :> rd.data) @@ @]]
        ELSE [ret |-> 0, s |-> g.s]

Exist(s, db, addr) ==
    LET g == getStateObject(s, db, addr)
    IN  [ret |-> g.found, s |-> g.s]

\* ------------------------------------------------------------------ snapshots
\* Snapshot: [ret, s].
\* A Snapshot that numbers a revision by its place in the list.
SnapshotByPosition(s) ==
    [ret |-> Len(s.validRevisions),
     s |-> [s EXCEPT !.validRevisions =
                         Append(@, [id |-> Len(s.validRevisions),
                                    journalIndex |-> Len(s.journal)])]]

\* Snapshot.
Snapshot(s) ==
    [ret |-> s.nextRevisionId,
     s |-> [s EXCEPT !.nextRevisionId = @ + 1,
                     !.validRevisions =
                         Append(@, [id |-> s.nextRevisionId,
                                    journalIndex |-> Len(s.journal)])]]

\* The index RevertToSnapshot finds: the last revision with this id, 0 if none.
FindRevision(revs, revid) ==
    LET hits == {i \in 1..Len(revs) : revs[i].id = revid}
    IN  IF hits = {} THEN 0 ELSE CHOOSE i \in hits : \A j \in hits : j <= i

\* A RevertToSnapshot that takes an unknown id for the oldest revision.
RevertToSnapshotOrOldest(s, revid) ==
    LET idx == FindRevision(s.validRevisions, revid)
    IN  IF idx = 0 THEN [s EXCEPT !.journal = <<>>, !.validRevisions = <<>>]
        ELSE [s EXCEPT
                !.journal = SubSeq(@, 1, s.validRevisions[idx].journalIndex),
                !.validRevisions = SubSeq(@, 1, idx - 1)]

\* RevertToSnapshot. The journal holds records of no concrete type (no write
\* appends one), so replaying entries[journalIndex..] changes no object.
RevertToSnapshot(s, revid) ==
    LET idx == FindRevision(s.validRevisions, revid)
    IN  IF idx = 0 THEN s
        ELSE [s EXCEPT
                !.journal = SubSeq(@, 1, s.validRevisions[idx].journalIndex),
                !.validRevisions = SubSeq(@, 1, idx - 1)]

\* ------------------------------------------------------------------ finalise
emptyObject(obj) ==
    obj.data.Nonce = 0 /\ obj.data.Balance = 0 /\ Len(obj.code) = 0

\* One iteration of the loop of Finalise over a dirty address.
FinaliseObject(obj, deleteEmptyObjects) ==
    IF obj.suicided
    THEN [obj EXCEPT !.deleted = TRUE]
    ELSE [obj EXCEPT
            !.pendingStorage = obj.dirtyStorage @@ @,
            !.dirtyStorage = EmptyStorage,
            !.deleted = IF deleteEmptyObjects /\ emptyObject(obj) THEN TRUE ELSE @]

\* The loop of Finalise: every dirty address that has an object.
FinaliseObjects(s, deleteEmptyObjects) ==
    LET touched == s.dirty \cap DOMAIN s.objects
        fin == [a \in DOMAIN s.objects |->
                  IF a \in touched
                  THEN FinaliseObject(s.objects[a], deleteEmptyObjects)
                  ELSE s.objects[a]]
    IN  [s EXCEPT
           !.objects = fin,
           !.deleted = @ \cup {a \in touched : fin[a].deleted}]

\* Finalise without the reset of s.dirty after the loop.
FinaliseKeepsDirtySet(s, deleteEmptyObjects) ==
    FinaliseObjects(s, deleteEmptyObjects)

Finalise(s, deleteEmptyObjects) ==
    [FinaliseObjects(s, deleteEmptyObjects) EXCEPT !.dirty = {}]

\* ------------------------------------------------------------------ root
\* The iteration orders a range over a Go map can take.
Orders(S) ==
    {f \in [1..Cardinality(S) -> S] : \A i, j \in 1..Cardinality(S) :
                                          i # j => f[i] # f[j]}

\* What the hasher of IntermediateRoot is fed when the map is ranged over in
\* this order: addr, then the encoded account (nothing when encoding fails).
RootInput(objects, order) ==
    LET Live(a) == ~objects[a].deleted
        live == SelectSeq(order, Live)
    IN  [i \in 1..Len(live) |->
            <<live[i], EncodeAccount(objects[live[i]].data).bytes>>]

\* The digest the hasher of IntermediateRoot yields for this iteration order.
HashAccounts(objects, order) == Keccak256(RootInput(objects, order))

\* IntermediateRoot: [ret, s].
IntermediateRoot(s, deleteEmptyObjects, order) ==
    LET s1 == Finalise(s, deleteEmptyObjects)
        root == HashAccounts(s1.objects, order)
    IN  IF root = ZeroRootHash
        THEN [ret |-> emptyRoot, s |-> s1]
        ELSE [ret |-> root, s |-> [s1 EXCEPT !.root = root]]

\* ------------------------------------------------------------------ commit
\* The storage loop of CommitToDB for one object: zero values are deleted,
\* the others written, each straight to the database.
WritePendingStorage(db, obj) ==
    LET ks == DOMAIN obj.pendingStorage
        KeyOf(k) == StorageKey(obj.addrHash, Keccak256(k))
        dels == {KeyOf(k) : k \in {x \in ks : obj.pendingStorage[x] = 0}}
        puts == {KeyOf(k) : k \in {x \in ks : obj.pendingStorage[x] # 0}}
        Slot(key) == CHOOSE k \in ks : KeyOf(k) = key
    IN  [key \in ((DOMAIN db) \ dels) \cup puts |->
            IF key \in puts THEN obj.pendingStorage[Slot(key)] ELSE db[key]]

\* The object loop of CommitToDB from position i of the iteration order:
\* [err, db, batch]. Account records go to the batch; deletions, code and
\* storage go to the database at once.
RECURSIVE CommitObjects(_, _, _, _, _)
CommitObjects(objects, order, i, db, batch) ==
    IF i > Len(order) THEN [err |-> FALSE, db |-> db, batch |-> batch]
    ELSE LET obj == objects[order[i]]
             enc == EncodeAccount(obj.data)
             db1 == IF Len(obj.code) > 0 /\ obj.dirty
                    THEN WriteCode(db, obj.codeHash, obj.code) ELSE db
             db2 == WritePendingStorage(db1, obj)
         IN  IF obj.deleted
             THEN CommitObjects(objects, order, i + 1,
                                DeleteAccountData(db, obj.addrHash), batch)
             ELSE IF enc.err
             THEN [err |-> TRUE, db |-> db, batch |-> batch]
             ELSE CommitObjects(objects, order, i + 1, db2,
                                Append(batch, <<AccountKey(obj.addrHash), enc.bytes>>))

\* batch.Write(): all the puts of the batch, or none of them on failure.
RECURSIVE BatchWrite(_, _)
BatchWrite(db, batch) ==
    IF batch = <<>> THEN db
    ELSE BatchWrite(DBPut(db, Head(batch)[1], Head(batch)[2]), Tail(batch))

\* CommitToDB: [err, db]. writeFails is the outcome of batch.Write().
CommitToDB(s, db, order, writeFails) ==
    LET r == CommitObjects(s.objects, order, 1, db, <<>>)
    IN  IF r.err THEN [err |-> TRUE, db |-> r.db]
        ELSE IF writeFails THEN [err |-> TRUE, db |-> r.db]
        ELSE [err |-> FALSE, db |-> BatchWrite(r.db, r.batch)]

\* ------------------------------------------------------------------ LevelDBStateDB
\* Keys of the LevelDB-backed store: a prefix, then the address (and slot).
BalanceKey(addr) == <<"bal:", addr>>
NonceKey(addr) == <<"non:", addr>>
LCodeKey(addr) == <<"cod:", addr>>
LStorageKey(addr, key) == <<"sto:", addr, key>>
LAccountKey(addr) == <<"acc:", addr>>

\* big.Int.Bytes(): the big-endian bytes of the absolute value.
BigIntBytes(bal) == <<"be", IF bal < 0 THEN 0 - bal ELSE bal>>
\* new(big.Int).SetBytes(data)
BigIntSetBytes(data) == data[2]

\* The eight big-endian bytes of a uint64 (every bit of it is kept), and
\* their decoding.
NonceBytes(nonce) == <<"u64", nonce>>
NonceFromBytes(data) == data[2]

NoCache == [a \in {} |-> 0]

\* open = FALSE: no LevelDB-backed store was constructed.
NoLevelDBStateDB ==
    [open |-> FALSE,
     balanceCache |-> NoCache, nonceCache |-> NoCache, codeCache |-> NoCache,
     storageCache |-> NoCache,
     dirtyBalances |-> {}, dirtyNonces |-> {}, dirtyCodes |-> {}, dirtyStorage |-> {}]

NewLevelDBStateDB == [NoLevelDBStateDB EXCEPT !.open = TRUE]

LevelDB_CreateAccount(l, addr) ==
    [l EXCEPT !.balanceCache = (addr :> 0) @@ @,
              !.nonceCache = (addr :> 0) @@ @,
              !.dirtyBalances = @ \cup {addr},
              !.dirtyNonces = @ \cup {addr}]

\* The second critical section of GetBalance (after a cache miss): [ret, l].
LevelDB_LoadBalance(l, db, addr) ==
    LET bal == IF DBHas(db, BalanceKey(addr))
               THEN BigIntSetBytes(db[BalanceKey(addr)]) ELSE 0
    IN  [ret |-> bal, l |-> [l EXCEPT !.balanceCache = (addr :> bal) @@ @]]

\* GetBalance by a single caller: [ret, l].
LevelDB_GetBalance(l, db, addr) ==
    IF addr \in DOMAIN l.balanceCache
    THEN [ret |-> l.balanceCache[addr], l |-> l]
    ELSE LevelDB_LoadBalance(l, db, addr)

LevelDB_SetBalance(l, addr, balance) ==
    [l EXCEPT !.balanceCache = (addr :> balance) @@ @,
              !.dirtyBalances = @ \cup {addr}]

LevelDB_AddBalance(l, db, addr, amount) ==
    LET g == LevelDB_GetBalance(l, db, addr)
    IN  LevelDB_SetBalance(g.l, addr, g.ret + amount)

LevelDB_SubBalance(l, db, addr, amount) ==
    LET g == LevelDB_GetBalance(l, db, addr)
    IN  LevelDB_SetBalance(g.l, addr, g.ret - amount)

LevelDB_GetNonce(l, db, addr) ==
    LET nonce == IF DBHas(db, NonceKey(addr))
                 THEN NonceFromBytes(db[NonceKey(addr)]) ELSE 0
    IN  IF addr \in DOMAIN l.nonceCache
        THEN [ret |-> l.nonceCache[addr], l |-> l]
        ELSE [ret |-> nonce, l |-> [l EXCEPT !.nonceCache = (addr :> nonce) @@ @]]

LevelDB_SetNonce(l, addr, nonce) ==
    [l EXCEPT !.nonceCache = (addr :> nonce) @@ @,
              !.dirtyNonces = @ \cup {addr}]

\* GetCode caches what the database holds; a miss there is not cached.
LevelDB_GetCode(l, db, addr) ==
    IF addr \in DOMAIN l.codeCache
    THEN [ret |-> l.codeCache[addr], l |-> l]
    ELSE IF ~DBHas(db, LCodeKey(addr))
    THEN [ret |-> <<>>, l |-> l]
    ELSE [ret |-> db[LCodeKey(addr)],
          l |-> [l EXCEPT !.codeCache = (addr :> db[LCodeKey(addr)]) @@ @]]

LevelDB_SetCode(l, addr, code) ==
    [l EXCEPT !.codeCache = (addr :> code) @@ @,
              !.dirtyCodes = @ \cup {addr}]

\* storageCache[addr][key] := value, creating the inner map when absent.
CacheSlot(l, addr, key, value) ==
    LET inner == IF addr \in DOMAIN l.storageCache
                 THEN l.storageCache[addr] ELSE EmptyStorage
    IN  [l EXCEPT !.storageCache = (addr :> ((key :> value) @@ inner)) @@ @]

LevelDB_GetState(l, db, addr, key) ==
    IF addr \in DOMAIN l.storageCache /\ key \in DOMAIN l.storageCache[addr]
    THEN [ret |-> l.storageCache[addr][key], l |-> l]
    ELSE IF ~DBHas(db, LStorageKey(addr, key))
    THEN [ret |-> 0, l |-> l]
    ELSE [ret |-> db[LStorageKey(addr, key)],
          l |-> CacheSlot(l, addr, key, db[LStorageKey(addr, key)])]

LevelDB_SetState(l, addr, key, value) ==
    [CacheSlot(l, addr, key, value) EXCEPT !.dirtyStorage = @ \cup {addr}]

\* The puts Commit collects in its batch, as a map from key to value.
CommitBatch(l) ==
    LET bals == l.dirtyBalances \cap DOMAIN l.balanceCache
        nons == l.dirtyNonces \cap DOMAIN l.nonceCache
        cods == l.dirtyCodes \cap DOMAIN l.codeCache
        stos == {<<a, k>> \in Addrs \X Keys :
                    /\ a \in l.dirtyStorage \cap DOMAIN l.storageCache
                    /\ k \in DOMAIN l.storageCache[a]}
        keys == {BalanceKey(a) : a \in bals} \cup {NonceKey(a) : a \in nons}
                \cup {LCodeKey(a) : a \in cods}
                \cup {LStorageKey(p[1], p[2]) : p \in stos}
    IN  [key \in keys |->
            IF key[1] = "bal:" THEN BigIntBytes(l.balanceCache[key[2]])
            ELSE IF key[1] = "non:" THEN NonceBytes(l.nonceCache[key[2]])
            ELSE IF key[1] = "cod:" THEN l.codeCache[key[2]]
            ELSE l.storageCache[key[2]][key[3]]]

\* Commit: [err, l, db]. writeFails is the outcome of s.db.Write(batch).
LevelDB_Commit(l, db, writeFails) ==
    IF writeFails
    THEN [err |-> TRUE, l |-> l, db |-> db]
    ELSE [err |-> FALSE,
          l |-> [l EXCEPT !.dirtyBalances = {}, !.dirtyNonces = {},
                          !.dirtyCodes = {}, !.dirtyStorage = {}],
          db |-> CommitBatch(l) @@ db]

LevelDB_Exist(l, db, addr) ==
    addr \in DOMAIN l.balanceCache \/ DBHas(db, LAccountKey(addr))

\* ------------------------------------------------------------------ state
VARIABLES
    s,      \* the StateDB
    disk,   \* the rawdb database the store is opened against
    h,      \* history: written, persisted, snapshotted, finalised, committed
    last,   \* the operation of the last step, its arguments and its result
    nops,   \* number of operations so far
    th,     \* the calls of the concurrent callers that are under way
    ldb,    \* the LevelDBStateDB, when the store is the LevelDB-backed one
    heap,   \* the allocated cells the pointers of a StateDB and its Copy refer to
    hs,     \* the StateDB structs of a store and of its Copy, fields as pointers
    sy,     \* the Synchronizer, its run loop and its callers
    net,    \* the chain backend, the peers and the messages of the Synchronizer
    ks,     \* the KeyStore: its accounts and its unlocked keys
    keyDir, \* the key directory: the encrypted key file at every path
    clock   \* what time.Now() returns

vars == <<s, disk, h, last, nops, th, ldb, heap, hs, sy, net, ks, keyDir, clock>>

\* The state of the Copy development and of the Synchronizer development.
copyVars == <<heap, hs>>
syncVars == <<sy, net>>
keyVars == <<ks, keyDir, clock>>

Threads == {1, 2}

Idle == [pc |-> "idle", op |-> "none", addr |-> 0, amount |-> 0, cur |-> 0]
NoCalls == [t \in Threads |-> Idle]

\* A database as an earlier run leaves it: address 1 committed with balance 2,
\* nonce 1, code and one storage slot.
SeedStore ==
    Finalise(SetState(SetCode(SetNonce(SetBalance(NewStateDB(TRUE), 1, 2), 1, 1),
                              1, <<7>>), 1, 1, 1), FALSE)
SeedDisk == CommitToDB(SeedStore, EmptyDB, <<1>>, FALSE).db

\* What a caller observes of one address without going to the database.
ObjView(st, a) ==
    IF HasObj(st, a) /\ ~st.objects[a].deleted
    THEN LET obj == st.objects[a]
         IN  [exists |-> TRUE,
              balance |-> obj.data.Balance,
              nonce |-> obj.data.Nonce,
              code |-> obj.code,
              suicided |-> obj.suicided,
              storage |-> [k \in Keys |->
                             IF k \in DOMAIN obj.dirtyStorage THEN obj.dirtyStorage[k]
                             ELSE IF k \in DOMAIN obj.pendingStorage
                                  THEN obj.pendingStorage[k]
                             ELSE IF k \in DOMAIN obj.originStorage
                                  THEN obj.originStorage[k]
                             ELSE 0]]
    ELSE [exists |-> FALSE, balance |-> 0, nonce |-> 0, code |-> <<>>,
          suicided |-> FALSE, storage |-> [k \in Keys |-> 0]]

View(st) == [a \in Addrs |-> ObjView(st, a)]

NoSnaps == [i \in {} |-> 0]

\* A LevelDB database as an earlier run leaves it: address 1 with balance 2,
\* nonce 1, code and one storage slot.
LSeedStore ==
    LevelDB_SetState(LevelDB_SetCode(LevelDB_SetNonce(
        LevelDB_SetBalance(NewLevelDBStateDB, 1, 2), 1, 1), 1, <<7>>), 1, 1, 1)
LSeedDisk == LevelDB_Commit(LSeedStore, EmptyDB, FALSE).db

\* The addresses with a record of any kind in the database.
PersistedAddrs(db) ==
    {a \in Addrs : \/ DBHas(db, AccountKey(Keccak256(a)))
                   \/ \E k \in Keys : DBHas(db, StorageKey(Keccak256(a), Keccak256(k)))
                   \/ DBHas(db, BalanceKey(a)) \/ DBHas(db, NonceKey(a))
                   \/ DBHas(db, LCodeKey(a)) \/ DBHas(db, LAccountKey(a))
                   \/ \E k \in Keys : DBHas(db, LStorageKey(a, k))}

NoCommit == [done |-> FALSE, writeFails |-> FALSE, err |-> FALSE, accounts |-> {}]

InitHistory(db) ==
    [written |-> {}, persisted |-> PersistedAddrs(db), snaps |-> NoSnaps,
     finalised |-> FALSE, commit |-> NoCommit, expected |-> [a \in Addrs |-> 0]]

\* again: the step repeats the operation of the step before it.
Op(name, addr, arg, ret) ==
    [op |-> name, addr |-> addr, arg |-> arg, ret |-> ret, again |-> last.op = name]

\* No StateDB is held by pointer, no Synchronizer is constructed.
NoStores == [st \in {} |-> 0]
NoSynchronizer ==
    [syncing |-> 0, cancelCh |-> 0, doneCh |-> 0, currentPeer |-> 0,
     startBlock |-> 0, targetBlock |-> 0, currentBlock |-> 0,
     pendingBlocks |-> [n \in {} |-> 0], runs |-> <<>>]
NoNetwork ==
    [chans |-> <<>>, head |-> 0, td |-> 0, peers |-> <<>>, panic |-> "none"]

\* No KeyStore is constructed.
NoKeyStore == [accounts |-> [a \in {} |-> 0], unlocked |-> [a \in {} |-> 0]]
NoKeys ==
    /\ ks = NoKeyStore
    /\ keyDir = [p \in {} |-> 0]
    /\ clock = 1

\* The store is a StateDB (over rawdb, or in memory) or a LevelDBStateDB.
Init ==
    /\ \/ /\ s \in {NewStateDB(TRUE), NewStateDB(FALSE)}
          /\ disk \in {EmptyDB, SeedDisk}
          /\ ldb = NoLevelDBStateDB
       \/ /\ s = NewStateDB(FALSE)
          /\ disk \in {EmptyDB, LSeedDisk}
          /\ ldb = NewLevelDBStateDB
    /\ h = InitHistory(disk)
    /\ last = [op |-> "Init", addr |-> 0, arg |-> 0, ret |-> 0, again |-> FALSE]
    /\ nops = 0
    /\ th = NoCalls
    /\ heap = <<>>
    /\ hs = NoStores
    /\ sy = NoSynchronizer
    /\ net = NoNetwork
    /\ NoKeys

\* A write of the store: the snapshots taken stay comparable.
WriteStep(name, addr, arg, ret, st) ==
    /\ ~ldb.open
    /\ nops < MaxOps
    /\ s' = st
    /\ h' = [h EXCEPT !.written = @ \cup {addr}, !.finalised = FALSE]
    /\ last' = Op(name, addr, arg, ret)
    /\ nops' = nops + 1
    /\ UNCHANGED <<disk, th, ldb, copyVars, syncVars, keyVars>>

\* Any other call: a snapshot taken before it no longer brackets writes only.
\* Finalise and IntermediateRoot leave the store finalised.
OtherStep(name, addr, arg, ret, st) ==
    /\ ~ldb.open
    /\ nops < MaxOps
    /\ s' = st
    /\ h' = [h EXCEPT !.snaps = NoSnaps,
                      !.finalised = @ \/ name \in {"Finalise", "IntermediateRoot"}]
    /\ last' = Op(name, addr, arg, ret)
    /\ nops' = nops + 1
    /\ UNCHANGED <<disk, th, ldb, copyVars, syncVars, keyVars>>

DoSetBalance ==
    \E a \in Addrs, v \in Amounts \cup {0} :
        WriteStep("SetBalance", a, v, 0, SetBalance(s, a, v))

DoAddBalance ==
    \E a \in Addrs, v \in Amounts :
        WriteStep("AddBalance", a, v, 0, AddBalance(s, a, v))

DoSubBalance ==
    \E a \in Addrs, v \in Amounts :
        WriteStep("SubBalance", a, v, 0, SubBalance(s, a, v))

DoSetNonce ==
    \E a \in Addrs, n \in Nonces :
        WriteStep("SetNonce", a, n, 0, SetNonce(s, a, n))

DoSetCode ==
    \E a \in Addrs, c \in Codes :
        WriteStep("SetCode", a, c, 0, SetCode(s, a, c))

DoSetState ==
    \E a \in Addrs, k \in Keys, v \in Values :
        WriteStep("SetState", a, <<k, v>>, 0, SetState(s, a, k, v))

DoCreateAccount ==
    \E a \in Addrs :
        WriteStep("CreateAccount", a, 0, 0, CreateAccount(s, a))

DoSuicide ==
    \E a \in Addrs :
        LET r == Suicide(s, disk, a)
        IN  WriteStep("Suicide", a, 0, r.ret, r.s)

DoGetBalance ==
    \E a \in Addrs :
        LET r == GetBalance(s, disk, a)
        IN  OtherStep("GetBalance", a, 0, r.ret, r.s)

DoGetNonce ==
    \E a \in Addrs :
        LET r == GetNonce(s, disk, a)
        IN  OtherStep("GetNonce", a, 0, r.ret, r.s)

DoGetCode ==
    \E a \in Addrs :
        LET r == GetCode(s, disk, a)
        IN  OtherStep("GetCode", a, 0, r.ret, r.s)

DoGetState ==
    \E a \in Addrs, k \in Keys :
        LET r == GetState(s, disk, a, k)
        IN  OtherStep("GetState", a, k, r.ret, r.s)

DoSnapshot ==
    /\ ~ldb.open
    /\ nops < MaxOps
    /\ s.nextRevisionId < MaxRev
    /\ LET r == Snapshot(s)
       IN  /\ s' = r.s
           /\ h' = [h EXCEPT !.snaps = (r.ret :> View(s)) @@ @]
           /\ last' = Op("Snapshot", 0, 0, r.ret)
    /\ nops' = nops + 1
    /\ UNCHANGED <<disk, th, ldb, copyVars, syncVars, keyVars>>

\* ret: whether the id brackets writes only since its Snapshot, the view the
\* store had at that Snapshot, and whether the id was a valid revision.
DoRevertToSnapshot ==
    \E id \in RevIds :
        /\ ~ldb.open
        /\ nops < MaxOps
        /\ s' = RevertToSnapshot(s, id)
        /\ h' = [h EXCEPT !.snaps = [i \in {j \in DOMAIN @ : j < id} |-> @[i]]]
        /\ last' = Op("RevertToSnapshot", 0, id,
                      [tracked |-> id \in DOMAIN h.snaps,
                       view |-> IF id \in DOMAIN h.snaps THEN h.snaps[id] ELSE View(s),
                       valid |-> \E i \in 1..Len(s.validRevisions) :
                                    s.validRevisions[i].id = id])
        /\ nops' = nops + 1
        /\ UNCHANGED <<disk, th, ldb, copyVars, syncVars, keyVars>>

DoFinalise ==
    \E deleteEmptyObjects \in BOOLEAN :
        OtherStep("Finalise", 0, deleteEmptyObjects, 0, Finalise(s, deleteEmptyObjects))

DoIntermediateRoot ==
    \E deleteEmptyObjects \in BOOLEAN, order \in Orders(DOMAIN s.objects) :
        LET r == IntermediateRoot(s, deleteEmptyObjects, order)
        IN  OtherStep("IntermediateRoot", 0, deleteEmptyObjects, r.ret, r.s)

\* The accounts a commit is to make durable: written, live, with their values.
CommittedAccounts(st, written) ==
    {[addr |-> a, balance |-> st.objects[a].data.Balance,
      nonce |-> st.objects[a].data.Nonce] :
        a \in {x \in written : HasObj(st, x) /\ ~st.objects[x].deleted}}

DoCommitToDB ==
    \E order \in Orders(DOMAIN s.objects), writeFails \in BOOLEAN :
        LET r == CommitToDB(s, disk, order, writeFails)
        IN  /\ ~ldb.open
            /\ nops < MaxOps
            /\ disk' = r.db
            /\ h' = [h EXCEPT !.snaps = NoSnaps,
                              !.persisted = @ \cup PersistedAddrs(r.db),
                              !.commit = [done |-> TRUE, writeFails |-> writeFails,
                                          err |-> r.err,
                                          accounts |-> CommittedAccounts(s, h.written)]]
            /\ last' = Op("CommitToDB", 0, writeFails, r.err)
            /\ nops' = nops + 1
            /\ UNCHANGED <<s, th, ldb, copyVars, syncVars, keyVars>>

\* state.New(root, db): a fresh store against the same database.
DoNew ==
    /\ ~ldb.open
    /\ nops < MaxOps
    /\ s' = NewStateDB(TRUE)
    /\ h' = [h EXCEPT !.written = {}, !.snaps = NoSnaps, !.finalised = FALSE]
    /\ last' = Op("New", 0, 0, 0)
    /\ nops' = nops + 1
    /\ UNCHANGED <<disk, th, ldb, copyVars, syncVars, keyVars>>

\* ---- the calls of a single caller on the LevelDBStateDB
LevelDBStep(name, addr, arg, ret, l, isWrite) ==
    /\ ldb.open
    /\ nops < MaxOps
    /\ ldb' = l
    /\ h' = [h EXCEPT !.written = IF isWrite THEN @ \cup {addr} ELSE @]
    /\ last' = Op(name, addr, arg, ret)
    /\ nops' = nops + 1
    /\ UNCHANGED <<s, disk, th, copyVars, syncVars, keyVars>>

DoLevelDBCreateAccount ==
    \E a \in Addrs :
        LevelDBStep("LevelDB.CreateAccount", a, 0, 0, LevelDB_CreateAccount(ldb, a), TRUE)

DoLevelDBGetBalance ==
    \E a \in Addrs :
        LET r == LevelDB_GetBalance(ldb, disk, a)
        IN  LevelDBStep("LevelDB.GetBalance", a, 0, r.ret, r.l, FALSE)

DoLevelDBSetBalance ==
    \E a \in Addrs, v \in Amounts \cup {0} :
        LevelDBStep("LevelDB.SetBalance", a, v, 0, LevelDB_SetBalance(ldb, a, v), TRUE)

DoLevelDBAddBalance ==
    \E a \in Addrs, v \in Amounts :
        LevelDBStep("LevelDB.AddBalance", a, v, 0,
                    LevelDB_AddBalance(ldb, disk, a, v), TRUE)

DoLevelDBSubBalance ==
    \E a \in Addrs, v \in Amounts :
        LevelDBStep("LevelDB.SubBalance", a, v, 0,
                    LevelDB_SubBalance(ldb, disk, a, v), TRUE)

DoLevelDBGetNonce ==
    \E a \in Addrs :
        LET r == LevelDB_GetNonce(ldb, disk, a)
        IN  LevelDBStep("LevelDB.GetNonce", a, 0, r.ret, r.l, FALSE)

DoLevelDBSetNonce ==
    \E a \in Addrs, n \in Nonces :
        LevelDBStep("LevelDB.SetNonce", a, n, 0, LevelDB_SetNonce(ldb, a, n), TRUE)

DoLevelDBGetCode ==
    \E a \in Addrs :
        LET r == LevelDB_GetCode(ldb, disk, a)
        IN  LevelDBStep("LevelDB.GetCode", a, 0, r.ret, r.l, FALSE)

DoLevelDBSetCode ==
    \E a \in Addrs, c \in Codes :
        LevelDBStep("LevelDB.SetCode", a, c, 0, LevelDB_SetCode(ldb, a, c), TRUE)

DoLevelDBGetState ==
    \E a \in Addrs, k \in Keys :
        LET r == LevelDB_GetState(ldb, disk, a, k)
        IN  LevelDBStep("LevelDB.GetState", a, k, r.ret, r.l, FALSE)

DoLevelDBSetState ==
    \E a \in Addrs, k \in Keys, v \in Values :
        LevelDBStep("LevelDB.SetState", a, <<k, v>>, 0,
                    LevelDB_SetState(ldb, a, k, v), TRUE)

DoLevelDBExist ==
    \E a \in Addrs :
        LevelDBStep("LevelDB.Exist", a, 0, LevelDB_Exist(ldb, disk, a), ldb, FALSE)

\* The accounts a commit is to make durable: written, with the balance and
\* nonce the store reads for them.
LevelDBCommittedAccounts(l, db, written) ==
    {[addr |-> a, balance |-> LevelDB_GetBalance(l, db, a).ret,
      nonce |-> LevelDB_GetNonce(l, db, a).ret] : a \in written}

DoLevelDBCommit ==
    \E writeFails \in BOOLEAN :
        LET r == LevelDB_Commit(ldb, disk, writeFails)
        IN  /\ ldb.open
            /\ nops < MaxOps
            /\ ldb' = r.l
            /\ disk' = r.db
            /\ h' = [h EXCEPT !.persisted = @ \cup PersistedAddrs(r.db),
                              !.commit = [done |-> TRUE, writeFails |-> writeFails,
                                          err |-> r.err,
                                          accounts |-> LevelDBCommittedAccounts(
                                                           ldb, disk, h.written)]]
            /\ last' = Op("LevelDB.Commit", 0, writeFails, r.err)
            /\ nops' = nops + 1
            /\ UNCHANGED <<s, th, copyVars, syncVars, keyVars>>

\* Close (which commits, and only logs a failure) and NewLevelDBStateDB on
\* the same path: a fresh store against the same database.
DoLevelDBReopen ==
    \E writeFails \in BOOLEAN :
        LET r == LevelDB_Commit(ldb, disk, writeFails)
        IN  /\ ldb.open
            /\ nops < MaxOps
            /\ ldb' = NewLevelDBStateDB
            /\ disk' = r.db
            /\ h' = [h EXCEPT !.written = {},
                              !.persisted = @ \cup PersistedAddrs(r.db),
                              !.commit = [done |-> TRUE, writeFails |-> writeFails,
                                          err |-> r.err,
                                          accounts |-> LevelDBCommittedAccounts(
                                                           ldb, disk, h.written)]]
            /\ last' = Op("LevelDB.New", 0, writeFails, r.err)
            /\ nops' = nops + 1
            /\ UNCHANGED <<s, th, copyVars, syncVars, keyVars>>

Next ==
    \/ DoSetBalance
    \/ DoAddBalance
    \/ DoSubBalance
    \/ DoSetNonce
    \/ DoSetCode
    \/ DoSetState
    \/ DoCreateAccount
    \/ DoSuicide
    \/ DoGetBalance
    \/ DoGetNonce
    \/ DoGetCode
    \/ DoGetState
    \/ DoSnapshot
    \/ DoRevertToSnapshot
    \/ DoFinalise
    \/ DoIntermediateRoot
    \/ DoCommitToDB
    \/ DoNew
    \/ DoLevelDBCreateAccount
    \/ DoLevelDBGetBalance
    \/ DoLevelDBSetBalance
    \/ DoLevelDBAddBalance
    \/ DoLevelDBSubBalance
    \/ DoLevelDBGetNonce
    \/ DoLevelDBSetNonce
    \/ DoLevelDBGetCode
    \/ DoLevelDBSetCode
    \/ DoLevelDBGetState
    \/ DoLevelDBSetState
    \/ DoLevelDBExist
    \/ DoLevelDBCommit
    \/ DoLevelDBReopen

Spec == Init /\ [][Next]_vars

\* A store in the middle of a block: address 1 was written and finalised by
\* an earlier transaction, so its storage slot is in the pending layer, with
\* the value the database has for it or with another.
WarmStores ==
    {Finalise(SetState(SetBalance(NewStateDB(TRUE), 1, 2), 1, 1, v), FALSE) : v \in Values}

InitWarm ==
    /\ \/ /\ s \in WarmStores
          /\ disk \in {EmptyDB, SeedDisk}
          /\ ldb = NoLevelDBStateDB
       \/ /\ s = NewStateDB(FALSE)
          /\ disk = LSeedDisk
          /\ ldb = NewLevelDBStateDB
    /\ h = [InitHistory(disk) EXCEPT !.written = IF ldb.open THEN {} ELSE {1}]
    /\ last = [op |-> "Init", addr |-> 0, arg |-> 0, ret |-> 0, again |-> FALSE]
    /\ nops = 0
    /\ th = NoCalls
    /\ heap = <<>>
    /\ hs = NoStores
    /\ sy = NoSynchronizer
    /\ net = NoNetwork
    /\ NoKeys

SpecWarm == InitWarm /\ [][Next]_vars

\* ------------------------------------------------------------------ callers
\* AddBalance and SubBalance called from several goroutines on one store.
\* StateDB: GetOrNewStateObject runs under s.lock; the read of
\* obj.data.Balance and the assignment to it run after the lock is released.
\* LevelDBStateDB: GetBalance takes the read lock for the cache look-up and,
\* on a miss, the write lock for the load; SetBalance takes the write lock.

\* What the store reads as the balance of an address, without loading.
CurrentBalance(a) ==
    IF ldb.open
    THEN LevelDB_GetBalance(ldb, disk, a).ret
    ELSE IF HasObj(s, a) THEN s.objects[a].data.Balance ELSE 0

\* h.expected: the balance each address started with, plus the amounts of
\* the AddBalance calls and minus those of the SubBalance calls made on it.
InitConc ==
    /\ \/ /\ s \in {NewStateDB(FALSE), SetBalance(NewStateDB(FALSE), 1, 2)}
          /\ disk = EmptyDB
          /\ ldb = NoLevelDBStateDB
       \/ /\ s = NewStateDB(FALSE)
          /\ disk \in {EmptyDB, LSeedDisk}
          /\ ldb \in {NewLevelDBStateDB, LevelDB_SetBalance(NewLevelDBStateDB, 2, 1)}
    /\ h = [InitHistory(disk) EXCEPT !.expected = [a \in Addrs |-> CurrentBalance(a)]]
    /\ last = [op |-> "Init", addr |-> 0, arg |-> 0, ret |-> 0, again |-> FALSE]
    /\ nops = 0
    /\ th = NoCalls
    /\ heap = <<>>
    /\ hs = NoStores
    /\ sy = NoSynchronizer
    /\ net = NoNetwork
    /\ NoKeys

CallBalanceOp(t) ==
    \E op \in {"AddBalance", "SubBalance"}, a \in Addrs, v \in Amounts :
        /\ nops < MaxOps
        /\ th[t].pc = "idle"
        /\ th' = [th EXCEPT ![t] = [pc |-> "lock", op |-> op, addr |-> a,
                                    amount |-> v, cur |-> 0]]
        /\ h' = [h EXCEPT !.expected[a] = IF op = "AddBalance" THEN @ + v ELSE @ - v]
        /\ last' = Op(op, a, v, t)
        /\ nops' = nops + 1
        /\ UNCHANGED <<s, disk, ldb, copyVars, syncVars, keyVars>>

\* The balance the call assigns: what it read, plus or minus its amount.
NewBalance(call) ==
    IF call.op = "AddBalance" THEN call.cur + call.amount ELSE call.cur - call.amount

\* obj := s.GetOrNewStateObject(addr)
StepGetOrNew(t) ==
    /\ ~ldb.open
    /\ th[t].pc = "lock"
    /\ s' = GetOrNewStateObject(s, th[t].addr)
    /\ th' = [th EXCEPT ![t].pc = "read"]
    /\ UNCHANGED <<disk, h, last, nops, ldb, copyVars, syncVars, keyVars>>

\* the read of obj.data.Balance
StepReadBalance(t) ==
    /\ ~ldb.open
    /\ th[t].pc = "read"
    /\ th' = [th EXCEPT ![t].pc = "write",
                        ![t].cur = s.objects[th[t].addr].data.Balance]
    /\ UNCHANGED <<s, disk, h, last, nops, ldb, copyVars, syncVars, keyVars>>

\* the assignment to obj.data.Balance, and the return
StepWriteBalance(t) ==
    /\ ~ldb.open
    /\ th[t].pc = "write"
    /\ s' = WriteBalance(s, th[t].addr, NewBalance(th[t]))
    /\ th' = [th EXCEPT ![t] = Idle]
    /\ UNCHANGED <<disk, h, last, nops, ldb, copyVars, syncVars, keyVars>>

\* LevelDBStateDB.GetBalance, first critical section: the cache look-up.
StepLevelDBLookup(t) ==
    /\ ldb.open
    /\ th[t].pc = "lock"
    /\ th' = IF th[t].addr \in DOMAIN ldb.balanceCache
             THEN [th EXCEPT ![t].pc = "set",
                             ![t].cur = ldb.balanceCache[th[t].addr]]
             ELSE [th EXCEPT ![t].pc = "load"]
    /\ UNCHANGED <<s, disk, h, last, nops, ldb, copyVars, syncVars, keyVars>>

\* LevelDBStateDB.GetBalance, second critical section: the load.
StepLevelDBLoad(t) ==
    /\ ldb.open
    /\ th[t].pc = "load"
    /\ LET r == LevelDB_LoadBalance(ldb, disk, th[t].addr)
       IN  /\ ldb' = r.l
           /\ th' = [th EXCEPT ![t].pc = "set", ![t].cur = r.ret]
    /\ UNCHANGED <<s, disk, h, last, nops, copyVars, syncVars, keyVars>>

\* LevelDBStateDB.SetBalance, and the return
StepLevelDBSet(t) ==
    /\ ldb.open
    /\ th[t].pc = "set"
    /\ ldb' = LevelDB_SetBalance(ldb, th[t].addr, NewBalance(th[t]))
    /\ th' = [th EXCEPT ![t] = Idle]
    /\ UNCHANGED <<s, disk, h, last, nops, copyVars, syncVars, keyVars>>

NextConc ==
    \/ \E t \in Threads : CallBalanceOp(t)
    \/ \E t \in Threads : StepGetOrNew(t)
    \/ \E t \in Threads : StepReadBalance(t)
    \/ \E t \in Threads : StepWriteBalance(t)
    \/ \E t \in Threads : StepLevelDBLookup(t)
    \/ \E t \in Threads : StepLevelDBLoad(t)
    \/ \E t \in Threads : StepLevelDBSet(t)

SpecConc == InitConc /\ [][NextConc]_vars

\* ------------------------------------------------------------------ pointers
\* A StateDB with its pointers kept: maps, *stateObject, *big.Int, []byte,
\* *journal and *Log are references to cells of heap (0 is nil), so that two
\* stores can share a cell. A step on one store writes the cells it reaches.
MaxCopyOps == 3

Alloc(hp, cell) == [heap |-> Append(hp, cell), ref |-> Len(hp) + 1]

\* NewMemoryStateDB: [heap, st]; db is nil.
HeapNewStateDB(hp) ==
    LET o == Alloc(hp, NoObjects)
        d == Alloc(o.heap, {})
        x == Alloc(d.heap, {})
        j == Alloc(x.heap, <<>>)
        l == Alloc(j.heap, [tx \in {} |-> <<>>])
    IN  [heap |-> l.heap,
         st |-> [root |-> emptyRoot, objects |-> o.ref, dirty |-> d.ref,
                 deleted |-> x.ref, journal |-> j.ref, validRevisions |-> <<>>,
                 nextRevisionId |-> 0, txHash |-> 0, txIndex |-> 0,
                 logs |-> l.ref, logSize |-> 0]]

\* createObject: [heap, ref]; the new object replaces objects[addr].
HeapCreateObject(hp, st, addr) ==
    LET b == Alloc(hp, 0)
        c == Alloc(b.heap, emptyCodeHash)
        o == Alloc(c.heap, EmptyStorage)
        p == Alloc(o.heap, EmptyStorage)
        d == Alloc(p.heap, EmptyStorage)
        obj == Alloc(d.heap,
                 [address |-> addr, addrHash |-> Keccak256(addr),
                  data |-> [Nonce |-> 0, Balance |-> b.ref, Root |-> emptyRoot,
                            CodeHash |-> c.ref],
                  code |-> 0, codeHash |-> 0,
                  dirty |-> FALSE, suicided |-> FALSE, deleted |-> FALSE,
                  originStorage |-> o.ref, pendingStorage |-> p.ref,
                  dirtyStorage |-> d.ref])
    IN  [heap |-> [obj.heap EXCEPT ![st.objects] = (addr :> obj.ref) @@ @],
         ref |-> obj.ref]

\* s.objects[addr]: the pointer, nil when the map has no entry.
HeapLookup(hp, st, addr) ==
    IF addr \in DOMAIN hp[st.objects] THEN hp[st.objects][addr] ELSE 0

\* GetOrNewStateObject: [heap, ref].
HeapGetOrNew(hp, st, addr) ==
    LET ref == HeapLookup(hp, st, addr)
    IN  IF ref = 0 \/ hp[ref].deleted
        THEN HeapCreateObject(hp, st, addr)
        ELSE [heap |-> hp, ref |-> ref]

\* getStateObject of a store without a database: the pointer or nil.
HeapGetStateObject(hp, st, addr) ==
    LET ref == HeapLookup(hp, st, addr)
    IN  IF ref # 0 /\ ~hp[ref].deleted THEN ref ELSE 0

\* obj.dirty = true; s.dirty[addr] = struct{}{}
HeapMarkDirty(hp, st, ref, addr) ==
    [hp EXCEPT ![ref].dirty = TRUE, ![st.dirty] = @ \cup {addr}]

\* obj.data.Balance = new(big.Int)...: the balance becomes a new big.Int of
\* this value; g is what GetOrNewStateObject returned.
HeapWriteBalance(g, st, addr, value) ==
    LET b == Alloc(g.heap, value)
    IN  HeapMarkDirty([b.heap EXCEPT ![g.ref].data.Balance = b.ref],
                      st, g.ref, addr)

\* The value of the big.Int obj.data.Balance points to.
HeapBalance(g) == g.heap[g.heap[g.ref].data.Balance]

HeapSetBalance(hp, st, addr, amount) ==
    HeapWriteBalance(HeapGetOrNew(hp, st, addr), st, addr, amount)

HeapAddBalance(hp, st, addr, amount) ==
    LET g == HeapGetOrNew(hp, st, addr)
    IN  HeapWriteBalance(g, st, addr, HeapBalance(g) + amount)

HeapSubBalance(hp, st, addr, amount) ==
    LET g == HeapGetOrNew(hp, st, addr)
    IN  HeapWriteBalance(g, st, addr, HeapBalance(g) - amount)

HeapSetNonce(hp, st, addr, nonce) ==
    LET g == HeapGetOrNew(hp, st, addr)
    IN  HeapMarkDirty([g.heap EXCEPT ![g.ref].data.Nonce = nonce], st, g.ref, addr)

\* SetCode: obj.code is the caller's slice, the hash a new slice that
\* obj.codeHash and obj.data.CodeHash both refer to.
HeapSetCode(hp, st, addr, code) ==
    LET g == HeapGetOrNew(hp, st, addr)
        c == Alloc(g.heap, code)
        k == Alloc(c.heap, Keccak256(code))
    IN  HeapMarkDirty([k.heap EXCEPT ![g.ref].code = c.ref,
                                     ![g.ref].codeHash = k.ref,
                                     ![g.ref].data.CodeHash = k.ref],
                      st, g.ref, addr)

\* SetState writes into the map obj.dirtyStorage refers to.
HeapSetState(hp, st, addr, key, value) ==
    LET g == HeapGetOrNew(hp, st, addr)
        m == g.heap[g.ref].dirtyStorage
    IN  HeapMarkDirty([g.heap EXCEPT ![m] = (key :> value) @@ @], st, g.ref, addr)

HeapCreateAccount(hp, st, addr) == HeapGetOrNew(hp, st, addr).heap

\* Suicide: [ret, heap].
HeapSuicide(hp, st, addr) ==
    LET ref == HeapGetStateObject(hp, st, addr)
        b == Alloc(hp, 0)
    IN  IF ref = 0 THEN [ret |-> FALSE, heap |-> hp]
        ELSE [ret |-> TRUE,
              heap |-> [b.heap EXCEPT ![ref].suicided = TRUE,
                                      ![ref].data.Balance = b.ref,
                                      ![st.dirty] = @ \cup {addr}]]

\* ---- Finalise, logs, snapshots and Copy on the pointer form
HeapEmptyObject(hp, obj) ==
    /\ obj.data.Nonce = 0
    /\ hp[obj.data.Balance] = 0
    /\ (obj.code = 0 \/ Len(hp[obj.code]) = 0)

\* An iteration that keeps the pending value of a key written again.
HeapFinaliseObjectKeepsPending(hp, st, addr, deleteEmptyObjects) ==
    LET ref == HeapLookup(hp, st, addr)
        obj == hp[ref]
        n == Alloc(hp, EmptyStorage)
        moved == [n.heap EXCEPT
                    ![obj.pendingStorage] = @ @@ hp[obj.dirtyStorage],
                    ![ref].dirtyStorage = n.ref]
    IN  IF ref = 0 THEN hp
        ELSE IF obj.suicided
        THEN [hp EXCEPT ![ref].deleted = TRUE, ![st.deleted] = @ \cup {addr}]
        ELSE IF deleteEmptyObjects /\ HeapEmptyObject(hp, obj)
        THEN [moved EXCEPT ![ref].deleted = TRUE, ![st.deleted] = @ \cup {addr}]
        ELSE moved

\* One iteration of the loop of Finalise: pending storage is written in
\* place, dirty storage becomes a new map.
HeapFinaliseObject(hp, st, addr, deleteEmptyObjects) ==
    LET ref == HeapLookup(hp, st, addr)
        obj == hp[ref]
        n == Alloc(hp, EmptyStorage)
        moved == [n.heap EXCEPT
                    ![obj.pendingStorage] = hp[obj.dirtyStorage] @@ @,
                    ![ref].dirtyStorage = n.ref]
    IN  IF ref = 0 THEN hp
        ELSE IF obj.suicided
        THEN [hp EXCEPT ![ref].deleted = TRUE, ![st.deleted] = @ \cup {addr}]
        ELSE IF deleteEmptyObjects /\ HeapEmptyObject(hp, obj)
        THEN [moved EXCEPT ![ref].deleted = TRUE, ![st.deleted] = @ \cup {addr}]
        ELSE moved

RECURSIVE HeapFinaliseLoop(_, _, _, _)
HeapFinaliseLoop(hp, st, todo, deleteEmptyObjects) ==
    IF todo = {} THEN hp
    ELSE LET addr == CHOOSE a \in todo : \A b \in todo : a <= b
         IN  HeapFinaliseLoop(HeapFinaliseObject(hp, st, addr, deleteEmptyObjects),
                              st, todo \ {addr}, deleteEmptyObjects)

\* Finalise: [heap, st]; s.dirty becomes a new map.
HeapFinalise(hp, st, deleteEmptyObjects) ==
    LET d == Alloc(HeapFinaliseLoop(hp, st, hp[st.dirty], deleteEmptyObjects), {})
    IN  [heap |-> d.heap, st |-> [st EXCEPT !.dirty = d.ref]]

\* s.logs[txHash], nil when the map has no entry.
HeapLogsOf(hp, st, txHash) ==
    IF txHash \in DOMAIN hp[st.logs] THEN hp[st.logs][txHash] ELSE <<>>

\* AddLog: the caller's *Log is written and appended: [heap, st].
HeapAddLog(hp, st, addr) ==
    LET l == Alloc(hp, [Address |-> addr, TxHash |-> st.txHash,
                        TxIndex |-> st.txIndex, Index |-> st.logSize,
                        BlockNumber |-> 0])
    IN  [heap |-> [l.heap EXCEPT ![st.logs] =
                      (st.txHash :> Append(HeapLogsOf(hp, st, st.txHash), l.ref)) @@ @],
         st |-> [st EXCEPT !.logSize = @ + 1]]

\* GetLogs stamps the block number on every log of the transaction.
HeapGetLogs(hp, st, txHash, blockNumber) ==
    LET logs == HeapLogsOf(hp, st, txHash)
        refs == {logs[i] : i \in 1..Len(logs)}
    IN  [r \in 1..Len(hp) |->
           IF r \in refs THEN [hp[r] EXCEPT !.BlockNumber = blockNumber] ELSE hp[r]]

HeapSnapshot(hp, st) ==
    [ret |-> st.nextRevisionId,
     st |-> [st EXCEPT !.nextRevisionId = @ + 1,
                       !.validRevisions =
                           Append(@, [id |-> st.nextRevisionId,
                                      journalIndex |-> Len(hp[st.journal])])]]

\* RevertToSnapshot: [heap, st].
HeapRevertToSnapshot(hp, st, revid) ==
    LET idx == FindRevision(st.validRevisions, revid)
    IN  IF idx = 0 THEN [heap |-> hp, st |-> st]
        ELSE [heap |-> [hp EXCEPT ![st.journal] =
                           SubSeq(@, 1, st.validRevisions[idx].journalIndex)],
              st |-> [st EXCEPT !.validRevisions = SubSeq(@, 1, idx - 1)]]

\* A copy of a stateObject that keeps the storage maps of the original (the
\* struct is copied, the maps behind it are not).
CopyObjectShallow(hp, state, addr, ref) ==
    LET b == Alloc(hp, hp[hp[ref].data.Balance])
        newObj == Alloc(b.heap, [hp[ref] EXCEPT !.data.Balance = b.ref])
    IN  [newObj.heap EXCEPT ![state.objects] = (addr :> newObj.ref) @@ @]

\* The body of the loop of Copy over s.objects: a new stateObject with a new
\* big.Int and three new maps; code, codeHash and data.CodeHash are the same
\* slices as the original's.
CopyObject(hp, state, addr, ref) ==
    LET obj == hp[ref]
        b == Alloc(hp, hp[obj.data.Balance])
        o == Alloc(b.heap, hp[obj.originStorage])
        p == Alloc(o.heap, hp[obj.pendingStorage])
        d == Alloc(p.heap, hp[obj.dirtyStorage])
        newObj == Alloc(d.heap,
                    [obj EXCEPT !.data.Balance = b.ref,
                                !.originStorage = o.ref,
                                !.pendingStorage = p.ref,
                                !.dirtyStorage = d.ref])
    IN  [newObj.heap EXCEPT ![state.objects] = (addr :> newObj.ref) @@ @]

RECURSIVE CopyObjects(_, _, _, _)
CopyObjects(hp, st, state, todo) ==
    IF todo = {} THEN hp
    ELSE LET addr == CHOOSE a \in todo : \A b \in todo : a <= b
         IN  CopyObjects(CopyObject(hp, state, addr, hp[st.objects][addr]),
                         st, state, todo \ {addr})

\* The log loop of Copy: every Log is copied into a new Log.
RECURSIVE CopyLogs(_, _, _)
CopyLogs(hp, logs, done) ==
    IF Len(done) = Len(logs) THEN [heap |-> hp, logs |-> done]
    ELSE LET l == Alloc(hp, hp[logs[Len(done) + 1]])
         IN  CopyLogs(l.heap, logs, Append(done, l.ref))

RECURSIVE CopyLogMap(_, _, _, _)
CopyLogMap(hp, st, state, todo) ==
    IF todo = {} THEN hp
    ELSE LET tx == CHOOSE a \in todo : \A b \in todo : a <= b
             c == CopyLogs(hp, hp[st.logs][tx], <<>>)
         IN  CopyLogMap([c.heap EXCEPT ![state.logs] = (tx :> c.logs) @@ @],
                        st, state, todo \ {tx})

\* Copy: [heap, st]. The fields the literal does not name (validRevisions,
\* nextRevisionId, txHash, txIndex, logSize) are zero in the copy.
Copy(hp, st) ==
    LET o == Alloc(hp, NoObjects)
        d == Alloc(o.heap, hp[st.dirty])
        x == Alloc(d.heap, hp[st.deleted])
        j == Alloc(x.heap, <<>>)
        l == Alloc(j.heap, [tx \in {} |-> <<>>])
        state == [root |-> st.root, objects |-> o.ref, dirty |-> d.ref,
                  deleted |-> x.ref, journal |-> j.ref, validRevisions |-> <<>>,
                  nextRevisionId |-> 0, txHash |-> 0, txIndex |-> 0,
                  logs |-> l.ref, logSize |-> 0]
        objs == CopyObjects(l.heap, st, state, DOMAIN hp[st.objects])
    IN  [heap |-> CopyLogMap(objs, st, state, DOMAIN hp[st.logs]),
         st |-> state]

\* What a caller reads from a store: every pointer followed to its value.
HeapObjView(hp, ref) ==
    LET obj == hp[ref]
    IN  [nonce |-> obj.data.Nonce,
         balance |-> hp[obj.data.Balance],
         dataCodeHash |-> hp[obj.data.CodeHash],
         code |-> IF obj.code = 0 THEN <<>> ELSE hp[obj.code],
         codeHash |-> IF obj.codeHash = 0 THEN <<>> ELSE hp[obj.codeHash],
         dirty |-> obj.dirty, suicided |-> obj.suicided, deleted |-> obj.deleted,
         originStorage |-> hp[obj.originStorage],
         pendingStorage |-> hp[obj.pendingStorage],
         dirtyStorage |-> hp[obj.dirtyStorage]]

HeapView(hp, st) ==
    [objects |-> [a \in DOMAIN hp[st.objects] |-> HeapObjView(hp, hp[st.objects][a])],
     dirty |-> hp[st.dirty],
     deleted |-> hp[st.deleted],
     logs |-> [tx \in DOMAIN hp[st.logs] |->
                 [i \in 1..Len(hp[st.logs][tx]) |-> hp[hp[st.logs][tx][i]]]],
     logSize |-> st.logSize]

\* ---- a store and its Copy, called by one caller
\* h here: the store of the last call, the revision ids the original issued
\* before the Copy, whether the copy issued one of its own.
CopyHistory == [on |-> "none", issued |-> {}, copySnaps |-> FALSE]

\* A store an earlier transaction has used: address 1 with balance, nonce,
\* code, pending and dirty storage, a log and a snapshot taken.
SeedHeapStore ==
    LET n == HeapNewStateDB(<<>>)
        a == HeapSetBalance(n.heap, n.st, 1, 2)
        b == HeapSetNonce(a, n.st, 1, 1)
        c == HeapSetCode(b, n.st, 1, <<7>>)
        d == HeapSetState(c, n.st, 1, 1, 1)
        e == HeapFinalise(d, n.st, FALSE)
        f == HeapSetState(e.heap, e.st, 1, 1, 0)
        g == HeapAddLog(f, e.st, 1)
        i == HeapSnapshot(g.heap, g.st)
    IN  [heap |-> g.heap, st |-> i.st, issued |-> {i.ret}]

InitCopy ==
    /\ \/ /\ heap = HeapNewStateDB(<<>>).heap
          /\ hs = ("s" :> HeapNewStateDB(<<>>).st)
          /\ h = CopyHistory
       \/ /\ heap = SeedHeapStore.heap
          /\ hs = ("s" :> SeedHeapStore.st)
          /\ h = [CopyHistory EXCEPT !.issued = SeedHeapStore.issued]
    /\ s = NewStateDB(FALSE)
    /\ disk = EmptyDB
    /\ last = [op |-> "Init", addr |-> 0, arg |-> 0, ret |-> 0, again |-> FALSE]
    /\ nops = 0
    /\ th = NoCalls
    /\ ldb = NoLevelDBStateDB
    /\ sy = NoSynchronizer
    /\ net = NoNetwork
    /\ NoKeys

\* A call on store w that leaves the heap hp and the struct st.
CopyStep(name, w, addr, arg, ret, hp, st) ==
    /\ nops < MaxCopyOps
    /\ heap' = hp
    /\ hs' = [hs EXCEPT ![w] = st]
    /\ h' = [h EXCEPT
               !.on = w,
               !.issued = IF name = "Snapshot" /\ w = "s" /\ "c" \notin DOMAIN hs
                          THEN @ \cup {ret} ELSE @,
               !.copySnaps = @ \/ (name = "Snapshot" /\ w = "c")]
    /\ last' = Op(name, addr, arg, ret)
    /\ nops' = nops + 1
    /\ UNCHANGED <<s, disk, th, ldb, syncVars, keyVars>>

DoHeapSetBalance ==
    \E w \in DOMAIN hs, addr \in Addrs, amount \in Amounts :
        CopyStep("SetBalance", w, addr, amount, 0,
                 HeapSetBalance(heap, hs[w], addr, amount), hs[w])

DoHeapAddBalance ==
    \E w \in DOMAIN hs, addr \in Addrs, amount \in Amounts :
        CopyStep("AddBalance", w, addr, amount, 0,
                 HeapAddBalance(heap, hs[w], addr, amount), hs[w])

DoHeapSubBalance ==
    \E w \in DOMAIN hs, addr \in Addrs, amount \in Amounts :
        CopyStep("SubBalance", w, addr, amount, 0,
                 HeapSubBalance(heap, hs[w], addr, amount), hs[w])

DoHeapSetNonce ==
    \E w \in DOMAIN hs, addr \in Addrs, nonce \in Nonces :
        CopyStep("SetNonce", w, addr, nonce, 0,
                 HeapSetNonce(heap, hs[w], addr, nonce), hs[w])

DoHeapSetCode ==
    \E w \in DOMAIN hs, addr \in Addrs, code \in Codes :
        CopyStep("SetCode", w, addr, code, 0,
                 HeapSetCode(heap, hs[w], addr, code), hs[w])

DoHeapSetState ==
    \E w \in DOMAIN hs, addr \in Addrs, key \in Keys, value \in Values :
        CopyStep("SetState", w, addr, <<key, value>>, 0,
                 HeapSetState(heap, hs[w], addr, key, value), hs[w])

DoHeapCreateAccount ==
    \E w \in DOMAIN hs, addr \in Addrs :
        CopyStep("CreateAccount", w, addr, 0, 0,
                 HeapCreateAccount(heap, hs[w], addr), hs[w])

DoHeapSuicide ==
    \E w \in DOMAIN hs, addr \in Addrs :
        LET r == HeapSuicide(heap, hs[w], addr)
        IN  CopyStep("Suicide", w, addr, 0, r.ret, r.heap, hs[w])

DoHeapFinalise ==
    \E w \in DOMAIN hs, deleteEmptyObjects \in BOOLEAN :
        LET r == HeapFinalise(heap, hs[w], deleteEmptyObjects)
        IN  CopyStep("Finalise", w, 0, deleteEmptyObjects, 0, r.heap, r.st)

DoHeapAddLog ==
    \E w \in DOMAIN hs, addr \in Addrs :
        LET r == HeapAddLog(heap, hs[w], addr)
        IN  CopyStep("AddLog", w, addr, 0, 0, r.heap, r.st)

DoHeapGetLogs ==
    \E w \in DOMAIN hs :
        CopyStep("GetLogs", w, 0, 1, 0, HeapGetLogs(heap, hs[w], hs[w].txHash, 1), hs[w])

DoHeapSnapshot ==
    \E w \in DOMAIN hs :
        LET r == HeapSnapshot(heap, hs[w])
        IN  /\ r.ret < MaxRev
            /\ CopyStep("Snapshot", w, 0, 0, r.ret, heap, r.st)

DoHeapRevertToSnapshot ==
    \E w \in DOMAIN hs, revid \in RevIds :
        LET r == HeapRevertToSnapshot(heap, hs[w], revid)
        IN  CopyStep("RevertToSnapshot", w, 0, revid, 0, r.heap, r.st)

\* c := s.Copy(), once.
DoCopy ==
    /\ "c" \notin DOMAIN hs
    /\ nops < MaxCopyOps
    /\ LET r == Copy(heap, hs["s"])
       IN  /\ heap' = r.heap
           /\ hs' = ("c" :> r.st) @@ hs
    /\ h' = [h EXCEPT !.on = "s"]
    /\ last' = Op("Copy", 0, 0, 0)
    /\ nops' = nops + 1
    /\ UNCHANGED <<s, disk, th, ldb, syncVars, keyVars>>

NextCopy ==
    \/ DoHeapSetBalance
    \/ DoHeapAddBalance
    \/ DoHeapSubBalance
    \/ DoHeapSetNonce
    \/ DoHeapSetCode
    \/ DoHeapSetState
    \/ DoHeapCreateAccount
    \/ DoHeapSuicide
    \/ DoHeapFinalise
    \/ DoHeapAddLog
    \/ DoHeapGetLogs
    \/ DoHeapSnapshot
    \/ DoHeapRevertToSnapshot
    \/ DoCopy

SpecCopy == InitCopy /\ [][NextCopy]_vars

\* ------------------------------------------------------------------ Synchronizer
\* sy is the Synchronizer: its fields and, in sy.runs, the locals and the
\* position of every goroutine Start spawned. net is what it works against:
\* the channels made so far (TRUE once closed), the backend's head number and
\* total difficulty, the handler's peers, and whether the process panicked.
\* th holds the calls of the caller threads that are under way.
MaxCalls == 3
MaxRuns == 2
MaxBlock == 2
MaxTimeouts == 1
MaxIters == 2

\* The peers the handler can report: td (0: not known yet) and head number.
PeerSets ==
    { <<>>,
      <<[td |-> 0, number |-> 2]>>,
      <<[td |-> 3, number |-> 2]>>,
      <<[td |-> 3, number |-> 0]>>,
      <<[td |-> 1, number |-> 2], [td |-> 3, number |-> 1]>>,
      <<[td |-> 3, number |-> 2], [td |-> 1, number |-> 1], [td |-> 3, number |-> 1]>> }

\* A block as the wire delivers it: its number and what tells two blocks of
\* one number apart. Number 1 comes in two versions.
Blocks ==
    {[number |-> n, hash |-> 1] : n \in 1..MaxBlock} \cup {[number |-> 1, hash |-> 2]}

\* The locals of run and of the syncWithPeer and waitForBlock calls it makes,
\* and what the goroutine has done in the current iteration and attempt:
\* reqs the numbers requested, ins the InsertBlock calls, cached the numbers
\* taken from the cache on arrival, failed the numbers InsertBlock refused,
\* stopInWait the number waited for when cancelCh was closed, waited whether
\* the iteration slept, timeouts and iters how many there were.
NewRun ==
    [pc |-> "sleep", peer |-> 0, peerTD |-> 0, peerNum |-> 0, ourTD |-> 0,
     ourNum |-> 0, targetNum |-> 0, num |-> 0, block |-> 0, err |-> "none",
     reqs |-> <<>>, ins |-> <<>>, cached |-> {}, failed |-> {},
     stopInWait |-> 0, waited |-> FALSE, timeouts |-> 0, iters |-> 0,
     completed |-> FALSE]

\* The positions of a goroutine inside the for loop of run.
LoopPcs == {"top", "find", "cmp", "backoff", "begin", "setStart", "setTarget",
            "setCurrent", "loop", "chk", "cache", "send", "poll", "select",
            "deadline", "insert"}
\* The positions inside waitForBlock.
WaitPcs == {"poll", "select", "deadline"}
\* The positions inside syncWithPeer.
AttemptPcs == {"begin", "setStart", "setTarget", "setCurrent", "loop", "chk",
               "cache", "send", "poll", "select", "deadline", "insert"}

\* A receive from the channel would not block: it is closed.
Closed(ch) == ch # 0 /\ net.chans[ch]

\* Syncing and Progress.
Syncing == sy.syncing = 1
Progress ==
    [start |-> sy.startBlock, current |-> sy.currentBlock,
     target |-> sy.targetBlock, syncing |-> Syncing]

\* The first peer with a known td, whatever the td of the others.
findFirstPeer(peers) ==
    LET known == {i \in 1..Len(peers) : peers[i].td # 0}
    IN  IF known = {} THEN 0 ELSE CHOOSE i \in known : \A j \in known : i <= j

\* findBestPeer: the index of the first peer of the highest known td, 0 (nil)
\* when there is no peer or none with a known td.
findBestPeer(peers) ==
    LET known == {i \in 1..Len(peers) : peers[i].td # 0}
        best == {i \in known : \A j \in known : peers[j].td <= peers[i].td}
    IN  IF known = {} THEN 0 ELSE CHOOSE i \in best : \A j \in best : i <= j

InitSync ==
    /\ sy = NoSynchronizer
    /\ net \in {[NoNetwork EXCEPT !.peers = ps, !.td = 2] : ps \in PeerSets}
    /\ th = NoCalls
    /\ last = [op |-> "Init", addr |-> 0, arg |-> 0, ret |-> "none", again |-> FALSE]
    /\ nops = 0
    /\ s = NewStateDB(FALSE)
    /\ disk = EmptyDB
    /\ h = CopyHistory
    /\ ldb = NoLevelDBStateDB
    /\ heap = <<>>
    /\ hs = NoStores
    /\ NoKeys

\* What a step of the Synchronizer leaves alone.
storeVars == <<s, disk, h, ldb, copyVars>>

\* A caller thread begins a call. Callers keep nothing from one call to the
\* next, so a call is given the first thread that has none under way.
CanCall(t) ==
    /\ net.panic = "none"
    /\ th[t].pc = "idle"
    /\ nops < MaxCalls
    /\ \A u \in Threads : u < t => th[u].pc # "idle"

\* The call a caller thread made last, and what it returned at once.
SyncOp(name, ret) == [op |-> name, addr |-> 0, arg |-> 0, ret |-> ret, again |-> FALSE]

\* Start with a plain store in place of the compare-and-swap.
StartNoCAS(t) ==
    /\ CanCall(t)
    /\ Len(sy.runs) < MaxRuns
    /\ sy' = [sy EXCEPT !.syncing = 1]
    /\ th' = [th EXCEPT ![t] = [Idle EXCEPT !.pc = "spawn", !.op = "Start"]]
    /\ last' = SyncOp("Start", "nil")
    /\ nops' = nops + 1
    /\ UNCHANGED <<net, storeVars, keyVars>>

\* Start, lines 53-55: the compare-and-swap and the early return.
StartCAS(t) ==
    /\ CanCall(t)
    /\ IF sy.syncing = 0
       THEN /\ Len(sy.runs) < MaxRuns
            /\ sy' = [sy EXCEPT !.syncing = 1]
            /\ th' = [th EXCEPT ![t] = [Idle EXCEPT !.pc = "spawn", !.op = "Start"]]
            /\ last' = SyncOp("Start", "nil")
       ELSE /\ UNCHANGED <<sy, th>>
            /\ last' = SyncOp("Start", "ErrAlreadySyncing")
    /\ nops' = nops + 1
    /\ UNCHANGED <<net, storeVars, keyVars>>

\* Start, lines 57-61: the two channels are made and the goroutine spawned.
StartSpawn(t) ==
    /\ net.panic = "none"
    /\ th[t].pc = "spawn"
    /\ net' = [net EXCEPT !.chans = @ \o <<FALSE, FALSE>>]
    /\ sy' = [sy EXCEPT !.doneCh = Len(net.chans) + 1,
                        !.cancelCh = Len(net.chans) + 2,
                        !.runs = Append(@, NewRun)]
    /\ th' = [th EXCEPT ![t] = Idle]
    /\ UNCHANGED <<last, nops, storeVars, keyVars>>

\* Stop, lines 66-69: the nil test and the select; the default case goes on
\* to close.
StopSelect(t) ==
    /\ CanCall(t)
    /\ th' = IF sy.cancelCh # 0 /\ ~Closed(sy.cancelCh)
             THEN [th EXCEPT ![t] = [Idle EXCEPT !.pc = "close", !.op = "Stop"]]
             ELSE th
    /\ last' = SyncOp("Stop", "done")
    /\ nops' = nops + 1
    /\ UNCHANGED <<sy, net, storeVars, keyVars>>

\* Stop, line 70: close(s.cancelCh); closing a closed channel panics. A
\* goroutine inside waitForBlock notes the number it is waiting for.
StopClose(t) ==
    /\ net.panic = "none"
    /\ th[t].pc = "close"
    /\ th' = [th EXCEPT ![t] = Idle]
    /\ IF Closed(sy.cancelCh)
       THEN /\ net' = [net EXCEPT !.panic = "close of closed cancelCh"]
            /\ sy' = sy
       ELSE /\ net' = [net EXCEPT !.chans[sy.cancelCh] = TRUE]
            /\ sy' = [sy EXCEPT !.runs =
                        [r \in 1..Len(sy.runs) |->
                           IF sy.runs[r].pc \in WaitPcs
                           THEN [sy.runs[r] EXCEPT !.stopInWait = sy.runs[r].num]
                           ELSE sy.runs[r]]]
    /\ UNCHANGED <<last, nops, storeVars, keyVars>>

\* DeliverBlock, lines 301-303: dropped when no sync is active.
DeliverCheck(t) ==
    /\ CanCall(t)
    /\ \E block \in Blocks :
          /\ th' = IF Syncing
                   THEN [th EXCEPT ![t] = [Idle EXCEPT !.pc = "store",
                                                       !.op = "DeliverBlock",
                                                       !.cur = block]]
                   ELSE th
          /\ last' = SyncOp("DeliverBlock", IF Syncing THEN "accepted" ELSE "dropped")
    /\ nops' = nops + 1
    /\ UNCHANGED <<sy, net, storeVars, keyVars>>

\* A DeliverBlock that keeps the entry a number already has.
DeliverStoreKeepFirst(t) ==
    /\ net.panic = "none"
    /\ th[t].pc = "store"
    /\ sy' = [sy EXCEPT !.pendingBlocks = @ @@ (th[t].cur.number :> th[t].cur)]
    /\ th' = [th EXCEPT ![t] = Idle]
    /\ last' = SyncOp("DeliverBlock",
                      IF th[t].cur.number \in DOMAIN sy.pendingBlocks
                      THEN "replaced" ELSE "added")
    /\ UNCHANGED <<net, nops, storeVars, keyVars>>

\* DeliverBlock, lines 305-307: the cache entry of the block's number is set;
\* last notes whether the number had an entry.
DeliverStore(t) ==
    /\ net.panic = "none"
    /\ th[t].pc = "store"
    /\ sy' = [sy EXCEPT !.pendingBlocks = (th[t].cur.number :> th[t].cur) @@ @]
    /\ th' = [th EXCEPT ![t] = Idle]
    /\ last' = SyncOp("DeliverBlock",
                      IF th[t].cur.number \in DOMAIN sy.pendingBlocks
                      THEN "replaced" ELSE "added")
    /\ UNCHANGED <<net, nops, storeVars, keyVars>>

\* ---- the goroutine of run
RunAt(r, pc) == net.panic = "none" /\ r \in 1..Len(sy.runs) /\ sy.runs[r].pc = pc

\* The goroutine moves on with these locals; the Synchronizer's fields and
\* the environment stay.
RunLocal(r, rec) ==
    /\ sy' = [sy EXCEPT !.runs[r] = rec]
    /\ UNCHANGED <<net, th, last, nops, storeVars, keyVars>>

\* The goroutine moves on and leaves the Synchronizer as sync.
RunField(r, sync, rec) ==
    /\ sy' = [sync EXCEPT !.runs[r] = rec]
    /\ UNCHANGED <<net, th, last, nops, storeVars, keyVars>>

\* delete(s.pendingBlocks, num)
Without(pending, num) == [n \in DOMAIN pending \ {num} |-> pending[n]]

\* run, line 93: the wait for peers to connect.
RunSleep(r) ==
    /\ RunAt(r, "sleep")
    /\ RunLocal(r, [sy.runs[r] EXCEPT !.pc = "top"])

\* run, lines 96-100: the cancellation test that opens an iteration. The loop
\* has no other way out; iterations past MaxIters are counted as MaxIters.
RunTop(r) ==
    /\ RunAt(r, "top")
    /\ IF Closed(sy.cancelCh)
       THEN RunLocal(r, [sy.runs[r] EXCEPT !.pc = "exit"])
       ELSE RunLocal(r, [NewRun EXCEPT !.pc = "find",
                                       !.iters = IF sy.runs[r].iters < MaxIters
                                                 THEN sy.runs[r].iters + 1
                                                 ELSE MaxIters,
                                       !.stopInWait = sy.runs[r].stopInWait])

\* run, lines 103-108.
RunFind(r) ==
    /\ RunAt(r, "find")
    /\ LET peer == findBestPeer(net.peers)
       IN  RunLocal(r, [sy.runs[r] EXCEPT
                          !.peer = peer,
                          !.pc = IF peer = 0 THEN "backoff" ELSE "cmp"])

\* run, lines 111-131: the peer is synced with when its td is above ours.
RunCompare(r) ==
    /\ RunAt(r, "cmp")
    /\ LET peer == net.peers[sy.runs[r].peer]
       IN  RunLocal(r, [sy.runs[r] EXCEPT
                          !.ourTD = net.td,
                          !.peerTD = peer.td,
                          !.peerNum = peer.number,
                          !.pc = IF peer.td = 0 \/ peer.td <= net.td
                                 THEN "backoff" ELSE "begin"])

\* run, lines 106, 129 and 136: the sleep before the next iteration.
RunBackoff(r) ==
    /\ RunAt(r, "backoff")
    /\ RunLocal(r, [sy.runs[r] EXCEPT !.pc = "top", !.waited = TRUE])

\* syncWithPeer, lines 171-178: nothing to fetch returns nil at once.
SyncBegin(r) ==
    /\ RunAt(r, "begin")
    /\ LET run == [sy.runs[r] EXCEPT !.ourNum = net.head, !.targetNum = sy.runs[r].peerNum]
       IN  IF run.targetNum <= run.ourNum
           THEN RunLocal(r, [run EXCEPT !.pc = "top"])
           ELSE RunField(r, [sy EXCEPT !.currentPeer = run.peer],
                         [run EXCEPT !.pc = "setStart"])

\* syncWithPeer, lines 179, 180 and 181: three separate stores.
SyncSetStart(r) ==
    /\ RunAt(r, "setStart")
    /\ RunField(r, [sy EXCEPT !.startBlock = sy.runs[r].ourNum],
                [sy.runs[r] EXCEPT !.pc = "setTarget"])

SyncSetTarget(r) ==
    /\ RunAt(r, "setTarget")
    /\ RunField(r, [sy EXCEPT !.targetBlock = sy.runs[r].targetNum],
                [sy.runs[r] EXCEPT !.pc = "setCurrent"])

SyncSetCurrent(r) ==
    /\ RunAt(r, "setCurrent")
    /\ RunField(r, [sy EXCEPT !.currentBlock = sy.runs[r].ourNum],
                [sy.runs[r] EXCEPT !.pc = "loop", !.num = sy.runs[r].ourNum + 1])

\* syncWithPeer, line 194 and, past the target, lines 263-271.
SyncLoop(r) ==
    /\ RunAt(r, "loop")
    /\ IF sy.runs[r].num <= sy.runs[r].targetNum
       THEN RunLocal(r, [sy.runs[r] EXCEPT !.pc = "chk"])
       ELSE RunField(r, [sy EXCEPT !.currentPeer = 0],
                     [sy.runs[r] EXCEPT !.pc = "top", !.completed = TRUE])

\* syncWithPeer, lines 195-199: ErrCancelled.
SyncCheckCancel(r) ==
    /\ RunAt(r, "chk")
    /\ RunLocal(r, IF Closed(sy.cancelCh)
                   THEN [sy.runs[r] EXCEPT !.pc = "backoff", !.err = "cancelled"]
                   ELSE [sy.runs[r] EXCEPT !.pc = "cache"])

\* A fetch loop that requests every number, delivered already or not.
SyncCacheAlwaysSend(r) ==
    /\ RunAt(r, "cache")
    /\ RunLocal(r, [sy.runs[r] EXCEPT !.pc = "send"])

\* syncWithPeer, lines 202-207: the cache is looked up under pendingMu.
SyncCache(r) ==
    /\ RunAt(r, "cache")
    /\ LET run == sy.runs[r]
           requested == \E i \in 1..Len(run.reqs) : run.reqs[i].num = run.num
       IN  IF run.num \in DOMAIN sy.pendingBlocks
           THEN RunField(r, [sy EXCEPT !.pendingBlocks = Without(@, run.num)],
                         [run EXCEPT !.pc = "insert",
                                     !.block = sy.pendingBlocks[run.num],
                                     !.cached = IF requested THEN @
                                                ELSE @ \cup {run.num}])
           ELSE RunLocal(r, [run EXCEPT !.pc = "send"])

\* A request whose send error is ignored: the wait starts all the same.
SyncSendIgnoreError(r) ==
    /\ RunAt(r, "send")
    /\ \E sent \in BOOLEAN :
          RunLocal(r, IF sent
                      THEN [sy.runs[r] EXCEPT
                              !.pc = "poll",
                              !.reqs = Append(@, [peer |-> sy.runs[r].peer,
                                                  num |-> sy.runs[r].num])]
                      ELSE [sy.runs[r] EXCEPT !.pc = "poll"])

\* syncWithPeer, lines 211-213: the by-number request; a send error ends the
\* attempt.
SyncSend(r) ==
    /\ RunAt(r, "send")
    /\ \E sent \in BOOLEAN :
          RunLocal(r, IF sent
                      THEN [sy.runs[r] EXCEPT
                              !.pc = "poll",
                              !.reqs = Append(@, [peer |-> sy.runs[r].peer,
                                                  num |-> sy.runs[r].num])]
                      ELSE [sy.runs[r] EXCEPT !.pc = "backoff", !.err = "send"])

\* A wait that hands out the block and leaves its entry in the cache.
WaitPollKeepsEntry(r) ==
    /\ RunAt(r, "poll")
    /\ LET run == sy.runs[r]
       IN  IF run.num \in DOMAIN sy.pendingBlocks
           THEN RunLocal(r, [run EXCEPT !.pc = "insert",
                                        !.block = sy.pendingBlocks[run.num]])
           ELSE RunLocal(r, [run EXCEPT !.pc = IF Closed(sy.cancelCh)
                                               THEN "loop" ELSE "select"])

\* waitForBlock, lines 280-290: the cache is looked up under pendingMu; a
\* select entered with cancelCh closed returns nil at once, its timer being
\* new, and the caller takes the nil for a timeout (lines 217-221).
WaitPoll(r) ==
    /\ RunAt(r, "poll")
    /\ LET run == sy.runs[r]
       IN  IF run.num \in DOMAIN sy.pendingBlocks
           THEN RunField(r, [sy EXCEPT !.pendingBlocks = Without(@, run.num)],
                         [run EXCEPT !.pc = "insert",
                                     !.block = sy.pendingBlocks[run.num]])
           ELSE RunLocal(r, [run EXCEPT !.pc = IF Closed(sy.cancelCh)
                                               THEN "loop" ELSE "select"])

\* waitForBlock, lines 289-293, for a goroutine blocked in the select: the
\* timer goes round, or cancelCh, closed meanwhile, returns nil. With both
\* ready the select takes either.
WaitSelect(r) ==
    /\ RunAt(r, "select")
    /\ \/ /\ Closed(sy.cancelCh)
          /\ RunLocal(r, [sy.runs[r] EXCEPT !.pc = "loop"])
       \/ RunLocal(r, [sy.runs[r] EXCEPT !.pc = "deadline"])

\* A wait whose timeout ends the attempt with an error.
WaitDeadlineAbort(r) ==
    /\ RunAt(r, "deadline")
    /\ \/ RunLocal(r, [sy.runs[r] EXCEPT !.pc = "poll"])
       \/ /\ sy.runs[r].timeouts < MaxTimeouts
          /\ RunLocal(r, [sy.runs[r] EXCEPT !.pc = "backoff", !.err = "timeout",
                                            !.timeouts = @ + 1])

\* waitForBlock, line 279, and lines 217-221 once the deadline has passed.
WaitDeadline(r) ==
    /\ RunAt(r, "deadline")
    /\ \/ RunLocal(r, [sy.runs[r] EXCEPT !.pc = "poll"])
       \/ /\ sy.runs[r].timeouts < MaxTimeouts
          /\ RunLocal(r, [sy.runs[r] EXCEPT !.pc = "loop", !.timeouts = @ + 1])

\* A fetch loop that tries a refused block again without moving on.
SyncInsertRetryOnFailure(r) ==
    /\ RunAt(r, "insert")
    /\ Len(sy.runs[r].ins) < MaxBlock + 1
    /\ LET run == sy.runs[r]
       IN  \E ok \in BOOLEAN :
              LET call == [num |-> run.num, block |-> run.block, ok |-> ok]
              IN  /\ sy' = [sy EXCEPT
                              !.currentBlock = IF ok THEN run.num ELSE @,
                              !.runs[r] =
                                  [run EXCEPT
                                     !.pc = IF ok THEN "loop" ELSE "insert",
                                     !.num = IF ok THEN @ + 1 ELSE @,
                                     !.ins = Append(@, call)]]
                  /\ net' = IF ok
                            THEN [net EXCEPT !.head = run.num, !.td = @ + 1]
                            ELSE net
                  /\ UNCHANGED <<th, last, nops, storeVars, keyVars>>

\* syncWithPeer, lines 225-244: the number test and InsertBlock, which the
\* backend accepts or refuses.
SyncInsert(r) ==
    /\ RunAt(r, "insert")
    /\ LET run == sy.runs[r]
       IN  IF run.block.number # run.num
           THEN RunLocal(r, [run EXCEPT !.pc = "loop"])
           ELSE \E ok \in BOOLEAN :
                  LET call == [num |-> run.num, block |-> run.block, ok |-> ok]
                  IN  /\ sy' = [sy EXCEPT
                                  !.currentBlock = IF ok THEN run.num ELSE @,
                                  !.runs[r] =
                                      [run EXCEPT
                                         !.pc = "loop",
                                         !.num = @ + 1,
                                         !.ins = Append(@, call),
                                         !.failed = IF ok THEN @
                                                    ELSE @ \cup {run.num}]]
                      /\ net' = IF ok
                                THEN [net EXCEPT !.head = run.num, !.td = @ + 1]
                                ELSE net
                      /\ UNCHANGED <<th, last, nops, storeVars, keyVars>>

\* run, line 88: the deferred reset of the syncing flag.
RunExit(r) ==
    /\ RunAt(r, "exit")
    /\ RunField(r, [sy EXCEPT !.syncing = 0], [sy.runs[r] EXCEPT !.pc = "closeDone"])

\* run, line 89: close(s.doneCh), the channel the field holds by now.
RunCloseDone(r) ==
    /\ RunAt(r, "closeDone")
    /\ sy' = [sy EXCEPT !.runs[r].pc = "dead"]
    /\ net' = IF Closed(sy.doneCh)
              THEN [net EXCEPT !.panic = "close of closed doneCh"]
              ELSE [net EXCEPT !.chans[sy.doneCh] = TRUE]
    /\ UNCHANGED <<th, last, nops, storeVars, keyVars>>

NextSync ==
    \/ \E t \in Threads : StartCAS(t)
    \/ \E t \in Threads : StartSpawn(t)
    \/ \E t \in Threads : StopSelect(t)
    \/ \E t \in Threads : StopClose(t)
    \/ \E t \in Threads : DeliverCheck(t)
    \/ \E t \in Threads : DeliverStore(t)
    \/ \E r \in 1..MaxRuns : RunSleep(r)
    \/ \E r \in 1..MaxRuns : RunTop(r)
    \/ \E r \in 1..MaxRuns : RunFind(r)
    \/ \E r \in 1..MaxRuns : RunCompare(r)
    \/ \E r \in 1..MaxRuns : RunBackoff(r)
    \/ \E r \in 1..MaxRuns : SyncBegin(r)
    \/ \E r \in 1..MaxRuns : SyncSetStart(r)
    \/ \E r \in 1..MaxRuns : SyncSetTarget(r)
    \/ \E r \in 1..MaxRuns : SyncSetCurrent(r)
    \/ \E r \in 1..MaxRuns : SyncLoop(r)
    \/ \E r \in 1..MaxRuns : SyncCheckCancel(r)
    \/ \E r \in 1..MaxRuns : SyncCache(r)
    \/ \E r \in 1..MaxRuns : SyncSend(r)
    \/ \E r \in 1..MaxRuns : WaitPoll(r)
    \/ \E r \in 1..MaxRuns : WaitSelect(r)
    \/ \E r \in 1..MaxRuns : WaitDeadline(r)
    \/ \E r \in 1..MaxRuns : SyncInsert(r)
    \/ \E r \in 1..MaxRuns : RunExit(r)
    \/ \E r \in 1..MaxRuns : RunCloseDone(r)

SpecSync == InitSync /\ [][NextSync]_vars

\* NewSynchronizer, lines 40-49, over a backend whose chain has a block
\* already: the three progress fields are zero and CurrentBlock is block 1.
InitSyncAhead ==
    /\ sy = NoSynchronizer
    /\ net \in {[NoNetwork EXCEPT !.peers = ps, !.td = 2, !.head = 1] : ps \in PeerSets}
    /\ th = NoCalls
    /\ last = [op |-> "Init", addr |-> 0, arg |-> 0, ret |-> "none", again |-> FALSE]
    /\ nops = 0
    /\ s = NewStateDB(FALSE)
    /\ disk = EmptyDB
    /\ h = CopyHistory
    /\ ldb = NoLevelDBStateDB
    /\ heap = <<>>
    /\ hs = NoStores
    /\ NoKeys

SpecSyncAhead == InitSyncAhead /\ [][NextSync]_vars

\* A step of the goroutine r, and the rest of a call that thread t has begun.
RunStep(r) ==
    \/ RunSleep(r) \/ RunTop(r) \/ RunFind(r) \/ RunCompare(r) \/ RunBackoff(r)
    \/ SyncBegin(r) \/ SyncSetStart(r) \/ SyncSetTarget(r) \/ SyncSetCurrent(r)
    \/ SyncLoop(r) \/ SyncCheckCancel(r) \/ SyncCache(r) \/ SyncSend(r)
    \/ WaitPoll(r) \/ WaitSelect(r) \/ WaitDeadline(r) \/ SyncInsert(r)
    \/ RunExit(r) \/ RunCloseDone(r)
CallStep(t) == StartSpawn(t) \/ StopClose(t) \/ DeliverStore(t)

\* The scheduler runs every goroutine that can run, sleeps end, and a call
\* under way returns; whether and when a caller makes a call is left open.
SpecSyncFair ==
    /\ InitSync
    /\ [][NextSync]_vars
    /\ \A r \in 1..MaxRuns : WF_vars(RunStep(r))
    /\ \A t \in Threads : WF_vars(CallStep(t))

\* ------------------------------------------------------------------ claims
JournalledWrites ==
    {"SetBalance", "AddBalance", "SubBalance", "SetNonce", "SetCode", "SetState"}

\* C1: id = Snapshot(); writes only; RevertToSnapshot(id) leaves every address
\* with the balance, nonce, code, storage values, suicided flag and existence
\* it had when the snapshot was taken.
C1_SnapshotRevertRoundTrip ==
    (last.op = "RevertToSnapshot" /\ last.ret.tracked) => View(s) = last.ret.view

\* C2: every write (and every Suicide that found its account) leaves the
\* journal strictly longer than it was.
C2_WriteAppendsJournal ==
    [][(\/ last'.op \in JournalledWrites
        \/ (last'.op = "Suicide" /\ last'.ret))
       => Len(s'.journal) > Len(s.journal)]_vars

\* C3: the hash IntermediateRoot returned is the hash of every store with the
\* same accounts: it is the same for every iteration order of the object map.
C3_RootDeterminism ==
    last.op = "IntermediateRoot" =>
        \A order \in Orders(DOMAIN s.objects) :
            IntermediateRoot(s, last.arg, order).ret = last.ret

\* C4: after a commit whose batch write did not fail, a fresh store against
\* the same database reads, for every account the committing store had
\* written, exactly the balance and nonce it held.
C4_CommitReloadRoundTrip ==
    /\ (last.op = "New" /\ h.commit.done /\ ~h.commit.writeFails) =>
           \A acc \in h.commit.accounts :
               /\ GetBalance(s, disk, acc.addr).ret = acc.balance
               /\ GetNonce(s, disk, acc.addr).ret = acc.nonce
    /\ (last.op = "LevelDB.New" /\ ~h.commit.writeFails) =>
           \A acc \in h.commit.accounts :
               /\ LevelDB_GetBalance(ldb, disk, acc.addr).ret = acc.balance
               /\ LevelDB_GetNonce(ldb, disk, acc.addr).ret = acc.nonce

\* C5: a CommitToDB that returns an error leaves the database as it was.
C5_CommitAllOrNothing ==
    [][(last'.op = "CommitToDB" /\ last'.ret) => disk' = disk]_vars

\* C6: once every call has returned, the balance of each address is the
\* balance it started with plus the amounts added minus the amounts subtracted.
C6_NoLostUpdates ==
    (\A t \in Threads : th[t].pc = "idle") =>
        \A a \in Addrs : CurrentBalance(a) = h.expected[a]

\* C7: no account has a negative balance, in the StateDB, in the
\* LevelDBStateDB or in the records of the database.
C7_BalanceNonNegative ==
    /\ \A a \in DOMAIN s.objects : s.objects[a].data.Balance >= 0
    /\ \A a \in DOMAIN ldb.balanceCache : ldb.balanceCache[a] >= 0
    /\ \A a \in Addrs :
           /\ ReadAccountData(disk, Keccak256(a)).found =>
                  DecodeAccount(ReadAccountData(disk, Keccak256(a)).data).account.Balance >= 0
           /\ DBHas(disk, BalanceKey(a)) => BigIntSetBytes(disk[BalanceKey(a)]) >= 0

\* C8: a Finalise of a store that was finalised and not written since changes
\* nothing of the store: objects, dirty set, deleted set.
C8_FinaliseIdempotent ==
    [][(last'.op = "Finalise" /\ h.finalised) => s' = s]_vars

\* C8 witness: a second Finalise in a row, after the first deleted an object.
C8_Witness ==
    /\ last.op = "Finalise"
    /\ last.again
    /\ s.deleted # {}

\* C9: the first AddBalance on an address that has a persisted record and no
\* object in the live map adds to the persisted balance and keeps the
\* persisted nonce.
C9_LoadOnFirstTouch ==
    [][(/\ last'.op = "AddBalance"
        /\ s.hasDB
        /\ ~HasObj(s, last'.addr)
        /\ ReadAccountData(disk, Keccak256(last'.addr)).found)
       => LET persisted ==
                  DecodeAccount(ReadAccountData(disk, Keccak256(last'.addr)).data).account
          IN  /\ GetBalance(s', disk', last'.addr).ret = persisted.Balance + last'.arg
              /\ GetNonce(s', disk', last'.addr).ret = persisted.Nonce]_vars

\* C10: an address never written and never persisted reads as balance 0,
\* nonce 0, empty code and zero storage.
C10_DefaultZeroReads ==
    \A a \in Addrs \ (h.written \cup h.persisted) :
        IF ldb.open
        THEN /\ LevelDB_GetBalance(ldb, disk, a).ret = 0
             /\ LevelDB_GetNonce(ldb, disk, a).ret = 0
             /\ LevelDB_GetCode(ldb, disk, a).ret = <<>>
             /\ \A k \in Keys : LevelDB_GetState(ldb, disk, a, k).ret = 0
        ELSE /\ GetBalance(s, disk, a).ret = 0
             /\ GetNonce(s, disk, a).ret = 0
             /\ GetCode(s, disk, a).ret = <<>>
             /\ \A k \in Keys : GetState(s, disk, a, k).ret = 0

\* C10 witness: a read of such an address went to a database that holds
\* other accounts.
C10_Witness ==
    /\ last.op \in {"GetBalance", "GetNonce", "GetCode", "GetState"}
    /\ last.addr \notin h.written \cup h.persisted
    /\ s.hasDB
    /\ h.persisted # {}

\* The other store of a store and its copy.
OtherStore(w) == IF w = "s" THEN "c" ELSE "s"

ActiveRuns(sync, calls) ==
    Cardinality({r \in 1..Len(sync.runs) : sync.runs[r].pc \notin {"closeDone", "dead"}})
        + Cardinality({t \in Threads : calls[t].pc = "spawn"})

\* C12: a Start call succeeds exactly when no sync is on; every other Start
\* returns ErrAlreadySyncing and leaves the Synchronizer (channels, progress
\* fields, pending blocks, the run) and the environment as they were; at no
\* time is more than one run loop active.
C12_SingleFlightStart ==
    [][/\ ActiveRuns(sy', th') <= 1
       /\ (last'.op = "Start" /\ nops' # nops) =>
             IF sy.syncing = 1
             THEN last'.ret = "ErrAlreadySyncing" /\ sy' = sy /\ net' = net
             ELSE last'.ret = "nil" /\ ActiveRuns(sy, th) = 0]_vars

\* A Start refused while the run of an earlier Start is fetching.
C12_Witness ==
    /\ last.op = "Start"
    /\ last.ret = "ErrAlreadySyncing"
    /\ \E r \in 1..Len(sy.runs) : sy.runs[r].pc \in AttemptPcs

\* C13: no Stop call, whenever and from however many threads it is made,
\* crashes on the cancellation channel.
C13_StopIdempotent == net.panic # "close of closed cancelCh"

\* C14: the block a run was waiting for when Stop closed the cancellation
\* channel is not handed to InsertBlock by that run.
C14_CancelPromptness ==
    \A r \in 1..Len(sy.runs) :
        \A i \in 1..Len(sy.runs[r].ins) :
            sy.runs[r].ins[i].num # sy.runs[r].stopInWait

\* The highest total difficulty a connected peer is known to have.
KnownTDs == {net.peers[i].td : i \in 1..Len(net.peers)} \ {0}

\* C15: the peer an iteration selects has the highest known total difficulty
\* of the connected peers; a sync attempt is under way, and a request has
\* been sent in the iteration, only with a selected peer whose difficulty is
\* strictly above the local one.
C15_PeerSelection ==
    \A r \in 1..Len(sy.runs) :
        LET run == sy.runs[r]
        IN  /\ run.peer # 0 =>
                 /\ net.peers[run.peer].td # 0
                 /\ \A td \in KnownTDs : td <= net.peers[run.peer].td
            /\ (run.pc \in {"find"} \cup AttemptPcs \/ run.reqs # <<>>) =>
                 (run.pc = "find" \/ (/\ run.peer # 0
                                      /\ run.peerTD = net.peers[run.peer].td
                                      /\ run.peerTD > run.ourTD))
            /\ (run.pc = "backoff" /\ run.err = "none") => run.reqs = <<>>

\* Requests sent to the better of several peers.
C15_Witness ==
    /\ Len(net.peers) >= 2
    /\ \E r \in 1..Len(sy.runs) :
          /\ sy.runs[r].reqs # <<>>
          /\ net.peers[sy.runs[r].peer].td = 3

\* C16: when the fetch loop reaches a number the cache holds, it takes that
\* block and sends no request for the number; a number the cache does not
\* hold is requested.
C16_UnsolicitedConsumed ==
    [][\A r \in 1..Len(sy.runs) :
          LET run == sy.runs[r]
              now == sy'.runs[r]
          IN  /\ (run.pc = "cache" /\ now.pc # "cache") =>
                    IF run.num \in DOMAIN sy.pendingBlocks
                    THEN /\ now.pc = "insert"
                         /\ now.block = sy.pendingBlocks[run.num]
                         /\ now.reqs = run.reqs
                    ELSE now.pc = "send"
              /\ \A n \in now.cached :
                    \A i \in 1..Len(now.reqs) : now.reqs[i].num # n]_vars

\* Block 1 came from the cache unrequested, block 2 was requested.
C16_Witness ==
    \E r \in 1..Len(sy.runs) :
        /\ 1 \in sy.runs[r].cached
        /\ \E i \in 1..Len(sy.runs[r].ins) : sy.runs[r].ins[i].num = 1
        /\ \E i \in 1..Len(sy.runs[r].reqs) : sy.runs[r].reqs[i].num = 2

\* C17: when an attempt has run to its end, the current-block counter that
\* Progress reports is at or past every number whose InsertBlock failed.
C17_InsertFailureSkip ==
    \A r \in 1..Len(sy.runs) :
        (sy.runs[r].completed /\ sy.runs[r].pc = "top") =>
            \A n \in sy.runs[r].failed : Progress.current >= n

\* The numbers of a sequence of requests or InsertBlock calls.
Nums(calls) == [i \in 1..Len(calls) |-> calls[i].num]
StrictlyIncreasing(q) == \A i \in 1..Len(q) - 1 : q[i] < q[i + 1]
NonDecreasing(q) == \A i \in 1..Len(q) - 1 : q[i] <= q[i + 1]

\* What C18 says of the InsertBlock calls and of the range of the requests.
AscendingInserts(run) ==
    /\ \A i \in 1..Len(run.ins) :
          /\ run.ins[i].num = run.ourNum + i
          /\ run.ins[i].num <= run.targetNum
          /\ run.ins[i].block.number = run.ins[i].num
    /\ \A i \in 1..Len(run.reqs) :
          run.ourNum < run.reqs[i].num /\ run.reqs[i].num <= run.targetNum

C20_SendFailureAborts ==
    [][\A r \in 1..Len(sy.runs) :
          LET run == sy.runs[r]
              now == sy'.runs[r]
          IN  /\ (run.pc = "send" /\ now.pc # "send" /\ now.reqs = run.reqs) =>
                    (now.pc = "backoff" /\ now.err = "send")
              /\ (run.err = "send" /\ run.pc \in {"backoff", "top"} /\ now # run) =>
                    /\ sy'.syncing = sy.syncing
                    /\ \/ run.pc = "backoff" /\ now.pc = "top" /\ now.waited
                                             /\ now.reqs = run.reqs /\ now.ins = run.ins
                       \/ run.pc = "top" /\ now.pc = "find" /\ ~Closed(sy.cancelCh)
                       \/ run.pc = "top" /\ now.pc = "exit" /\ Closed(sy.cancelCh)]_vars

\* A send failed after an earlier request went out, and the run has slept.
C20_Witness ==
    \E r \in 1..Len(sy.runs) :
        /\ sy.runs[r].err = "send"
        /\ sy.runs[r].pc = "top"
        /\ sy.runs[r].waited
        /\ sy.runs[r].reqs # <<>>

\* C21: a DeliverBlock call made while the syncing flag is clear changes
\* nothing of the Synchronizer and stores nothing later; one made while it is
\* set makes the cache entry of the block's number that block, whatever the
\* entry was, and leaves every other entry as it was.
C21_DeliverBlockCache ==
    [][/\ (last'.op = "DeliverBlock" /\ nops' # nops) =>
             /\ sy' = sy
             /\ IF sy.syncing = 1
                THEN \E t \in Threads : th[t].pc = "idle" /\ th'[t].pc = "store"
                ELSE th' = th
       /\ \A t \in Threads :
             (th[t].pc = "store" /\ th'[t].pc = "idle") =>
                 LET block == th[t].cur
                 IN  /\ DOMAIN sy'.pendingBlocks = DOMAIN sy.pendingBlocks \cup {block.number}
                     /\ sy'.pendingBlocks[block.number] = block
                     /\ \A n \in DOMAIN sy.pendingBlocks \ {block.number} :
                            sy'.pendingBlocks[n] = sy.pendingBlocks[n]]_vars

\* The second version of block 1 has replaced an entry of number 1.
C21_Witness ==
    /\ last.op = "DeliverBlock"
    /\ last.ret = "replaced"
    /\ 1 \in DOMAIN sy.pendingBlocks
    /\ sy.pendingBlocks[1].hash = 2

\* syncWithPeer has returned nil to the run loop of goroutine r: the attempt
\* reached its target, or there was nothing to fetch.
AttemptReturnedNil(r) ==
    /\ r \in 1..Len(sy.runs)
    /\ sy.runs[r].pc = "top"
    /\ sy.runs[r].iters > 0
    /\ sy.runs[r].peerTD > sy.runs[r].ourTD
    /\ sy.runs[r].err = "none"

\* C22: once an attempt has reached its target or found nothing to fetch,
\* the Synchronizer is eventually Idle again (Syncing() is false); and once
\* Stop has closed the cancellation channel of a run, it is eventually Idle.
C22_ReturnsToIdle ==
    /\ (\E r \in 1..MaxRuns : AttemptReturnedNil(r)) ~> (sy.syncing = 0)
    /\ (sy.syncing = 1 /\ Closed(sy.cancelCh) /\ \A t \in Threads : th[t].pc # "spawn")
          ~> (sy.syncing = 0 \/ net.panic # "none")

\* The ids of the valid revisions, oldest first.
RevisionIds(st) == [i \in 1..Len(st.validRevisions) |-> st.validRevisions[i].id]

\* C23: Snapshot returns an id above every id the store has issued, and the
\* counter of ids never goes back, so no id is issued twice; a
\* RevertToSnapshot with a valid id leaves exactly the revisions that were
\* issued before it, in their order.
C23_RevisionIds ==
    [][/\ last'.op = "Snapshot" =>
             /\ last'.ret = s.nextRevisionId
             /\ s'.nextRevisionId > last'.ret
             /\ \A i \in 1..Len(s.validRevisions) : s.validRevisions[i].id < last'.ret
             /\ RevisionIds(s') = Append(RevisionIds(s), last'.ret)
       /\ last'.op # "New" => s'.nextRevisionId >= s.nextRevisionId
       /\ (last'.op = "RevertToSnapshot" /\ last'.ret.valid) =>
             /\ s'.validRevisions =
                    SelectSeq(s.validRevisions, LAMBDA rev : rev.id < last'.arg)
             /\ Len(s'.validRevisions) < Len(s.validRevisions)]_vars

\* A Snapshot after revision 0 was reverted: it is given id 1, not 0 again.
C23_Witness ==
    /\ last.op = "Snapshot"
    /\ last.ret = 1
    /\ RevisionIds(s) = <<1>>

\* C24: a RevertToSnapshot with an id that is not a valid revision, because
\* it was never issued or was reverted already, changes nothing of the store.
C24_UnknownRevisionNoOp ==
    [][(last'.op = "RevertToSnapshot" /\ ~last'.ret.valid) =>
          (s' = s /\ disk' = disk)]_vars

\* The second of two reverts to an id that was issued.
C24_Witness ==
    /\ last.op = "RevertToSnapshot"
    /\ last.again
    /\ ~last.ret.valid
    /\ last.arg < s.nextRevisionId

\* What C27 says Finalise makes of the object obj of a dirty address.
FinalisedAs(obj, deleteEmpty) ==
    IF obj.suicided
    THEN [obj EXCEPT !.deleted = TRUE]
    ELSE [obj EXCEPT
            !.pendingStorage =
                [k \in DOMAIN obj.dirtyStorage \cup DOMAIN obj.pendingStorage |->
                    IF k \in DOMAIN obj.dirtyStorage
                    THEN obj.dirtyStorage[k] ELSE obj.pendingStorage[k]],
            !.dirtyStorage = EmptyStorage,
            !.deleted = @ \/ (/\ deleteEmpty
                              /\ obj.nonce = 0 /\ obj.balance = 0 /\ obj.code = <<>>)]

\* C27: Finalise(deleteEmpty) leaves the object of every address that is not
\* dirty as it was; of a dirty address, a suicided object is marked deleted
\* with its storage layers untouched, any other has its working entries
\* written over pending, its working layer emptied, and is marked deleted
\* when deleteEmpty is set and it has nonce 0, balance 0 and no code; the
\* addresses of the objects marked deleted are added to the deleted set and
\* the dirty set is empty afterwards.
C27_FinaliseEffect ==
    [][last'.op = "Finalise" =>
          LET old == HeapView(heap, hs[h'.on])
              new == HeapView(heap', hs'[h'.on])
              touched == old.dirty \cap DOMAIN old.objects
          IN  /\ DOMAIN new.objects = DOMAIN old.objects
              /\ \A a \in DOMAIN old.objects :
                    new.objects[a] = IF a \in touched
                                     THEN FinalisedAs(old.objects[a], last'.arg)
                                     ELSE old.objects[a]
              /\ new.deleted =
                    old.deleted \cup
                        {a \in touched : old.objects[a].suicided \/ new.objects[a].deleted}
              /\ new.dirty = {}]_vars

\* A Finalise has written a working value over the pending value of its key.
C27_Witness ==
    /\ last.op = "Finalise"
    /\ h.on = "s"
    /\ 1 \in DOMAIN HeapView(heap, hs["s"]).objects
    /\ HeapView(heap, hs["s"]).objects[1].pendingStorage = (1 :> 0)
    /\ HeapView(heap, hs["s"]).objects[1].dirtyStorage = EmptyStorage

\* C28: the live map holds no object that is marked deleted.
C28_LiveMap ==
    \A a \in DOMAIN s.objects : ~s.objects[a].deleted

\* C29: every object with an entry in its working storage layer has its
\* address in the dirty set of its store.
C29_DirtyTracking ==
    \A w \in DOMAIN hs :
        LET view == HeapView(heap, hs[w])
        IN  \A a \in DOMAIN view.objects :
                view.objects[a].dirtyStorage # EmptyStorage => a \in view.dirty

\* C30: the step in which the fetch loop or the wait takes the block of
\* number n from the cache also removes the entry of n and no other; an entry
\* appears in the cache, or changes, only in the store of a DeliverBlock call
\* for that number.
C30_CacheConsumption ==
    [][/\ \A r \in 1..Len(sy.runs) :
             LET run == sy.runs[r]
                 now == sy'.runs[r]
             IN  (run.pc \in {"cache", "poll"} /\ now.pc = "insert") =>
                     /\ run.num \in DOMAIN sy.pendingBlocks
                     /\ now.block = sy.pendingBlocks[run.num]
                     /\ DOMAIN sy'.pendingBlocks = DOMAIN sy.pendingBlocks \ {run.num}
                     /\ \A n \in DOMAIN sy'.pendingBlocks :
                            sy'.pendingBlocks[n] = sy.pendingBlocks[n]
       /\ \A n \in DOMAIN sy'.pendingBlocks :
             (n \notin DOMAIN sy.pendingBlocks \/ sy'.pendingBlocks[n] # sy.pendingBlocks[n]) =>
                 \E t \in Threads : /\ th[t].pc = "store"
                                    /\ th'[t].pc = "idle"
                                    /\ th[t].cur.number = n]_vars

\* Block 1 was taken from the cache, where only block 2 is left.
C30_Witness ==
    /\ DOMAIN sy.pendingBlocks = {2}
    /\ \E r \in 1..Len(sy.runs) :
          /\ sy.runs[r].pc = "insert"
          /\ sy.runs[r].num = 1
          /\ sy.runs[r].block.number = 1

\* --------------------------------------------------------------- keystore
\* The KeyStore of accounts/keystore. An account is known by its address, and
\* the address stands for the private key it derives from; the key file of an
\* address lies at the path keyFileName makes of the time of writing and the
\* address. Time is a counter; the zero time.Time is 0 and the clock starts
\* past it.
KeyAddrs == {1, 2}
Passwords == {"testpassword123", "wrongpassword"}
Durations == {0, 1, 2}
Hashes == {7}
MaxClock == 3

IsZero(t) == t = 0

\* EncryptKey / DecryptKey: the file remembers the key under the password it
\* was written with and gives it back for that password only.
EncryptKey(key, password) == [key |-> key, password |-> password]
DecryptKey(encryptedKey, password) ==
    IF encryptedKey.password = password
    THEN [key |-> encryptedKey.key, err |-> "nil"]
    ELSE [key |-> 0, err |-> "ErrDecrypt"]

\* crypto.Sign: a signature tells the key and the hash it was made of.
Sign(hash, key) == <<key, hash>>

keyFileName(now, address) == <<now, address>>

StoreKey(dir, now, key, password) ==
    (keyFileName(now, key) :> EncryptKey(key, password)) @@ dir

LoadKey(dir, path, password) ==
    IF path \notin DOMAIN dir
    THEN [key |-> 0, err |-> "ErrNotExist"]
    ELSE DecryptKey(dir[path], password)

Drop(f, a) == [x \in DOMAIN f \ {a} |-> f[x]]

\* NewAccount and the second half of Import: the key is stored, the account
\* is entered in ks.accounts.
AddAccount(k, dir, now, key, password) ==
    [ks |-> [k EXCEPT !.accounts = (key :> keyFileName(now, key)) @@ @],
     dir |-> StoreKey(dir, now, key, password),
     err |-> "nil"]

Import(k, dir, now, privateKey, password) ==
    IF privateKey \in DOMAIN k.accounts
    THEN [ks |-> k, dir |-> dir, err |-> "ErrAlreadyExist"]
    ELSE AddAccount(k, dir, now, privateKey, password)

Delete(k, dir, addr, password, removeFails) ==
    IF addr \notin DOMAIN k.accounts
    THEN [ks |-> k, dir |-> dir, err |-> "ErrNoMatch"]
    ELSE LET loaded == LoadKey(dir, k.accounts[addr], password)
             locked == [k EXCEPT !.unlocked = Drop(@, addr)]
         IN  IF loaded.err # "nil"
             THEN [ks |-> k, dir |-> dir, err |-> loaded.err]
             ELSE IF removeFails
             THEN [ks |-> locked, dir |-> dir, err |-> "ErrRemove"]
             ELSE [ks |-> [locked EXCEPT !.accounts = Drop(@, addr)],
                   dir |-> Drop(dir, k.accounts[addr]),
                   err |-> "nil"]

TimedUnlock(k, dir, now, addr, password, duration) ==
    IF addr \notin DOMAIN k.accounts
    THEN [ks |-> k, err |-> "ErrNoMatch"]
    ELSE IF addr \in DOMAIN k.unlocked
    THEN LET state == k.unlocked[addr]
             newExpiry == now + duration
         IN  IF IsZero(state.expiry)
             THEN [ks |-> k, err |-> "nil"]
             ELSE IF duration = 0
             THEN [ks |-> [k EXCEPT !.unlocked[addr].expiry = 0], err |-> "nil"]
             ELSE IF newExpiry > state.expiry
             THEN [ks |-> [k EXCEPT !.unlocked[addr].expiry = newExpiry], err |-> "nil"]
             ELSE [ks |-> k, err |-> "nil"]
    ELSE LET loaded == LoadKey(dir, k.accounts[addr], password)
             expiry == IF duration > 0 THEN now + duration ELSE 0
         IN  IF loaded.err # "nil"
             THEN [ks |-> k, err |-> loaded.err]
             ELSE [ks |-> [k EXCEPT !.unlocked =
                               (addr :> [key |-> loaded.key, expiry |-> expiry]) @@ @],
                   err |-> "nil"]

Unlock(k, dir, now, addr, password) == TimedUnlock(k, dir, now, addr, password, 0)

Lock(k, addr) ==
    IF addr \notin DOMAIN k.unlocked
    THEN [ks |-> k, err |-> "ErrNoMatch"]
    ELSE [ks |-> [k EXCEPT !.unlocked = Drop(@, addr)], err |-> "nil"]

IsUnlocked(k, now, addr) ==
    IF addr \notin DOMAIN k.unlocked
    THEN FALSE
    ELSE ~(~IsZero(k.unlocked[addr].expiry) /\ now > k.unlocked[addr].expiry)

\* A key look-up that does not look at the expiry.
getUnlockedKeyNoExpiry(k, now, addr) ==
    IF addr \notin DOMAIN k.unlocked
    THEN [key |-> 0, err |-> "ErrLocked"]
    ELSE [key |-> k.unlocked[addr].key, err |-> "nil"]

getUnlockedKey(k, now, addr) ==
    IF addr \notin DOMAIN k.unlocked
    THEN [key |-> 0, err |-> "ErrLocked"]
    ELSE IF ~IsZero(k.unlocked[addr].expiry) /\ now > k.unlocked[addr].expiry
    THEN [key |-> 0, err |-> "ErrLocked"]
    ELSE [key |-> k.unlocked[addr].key, err |-> "nil"]

SignHash(k, now, addr, hash) ==
    LET got == getUnlockedKey(k, now, addr)
    IN  IF got.err # "nil"
        THEN [sig |-> <<>>, err |-> got.err]
        ELSE [sig |-> Sign(hash, got.key), err |-> "nil"]

expireUnlocked(k, now) ==
    [k EXCEPT !.unlocked =
        [a \in {x \in DOMAIN @ : ~(~IsZero(@[x].expiry) /\ now > @[x].expiry)} |-> @[a]]]

\* The history of the keystore: for every address the unlocks granted since
\* the account was last locked or deleted, each by the time it runs out, the
\* zero time for an unlock without a duration.
KeyHistory == [grants |-> [a \in KeyAddrs |-> {}]]

Granted(addr, duration) ==
    [h EXCEPT !.grants[addr] = @ \cup {IF duration = 0 THEN 0 ELSE clock + duration}]
Revoked(addr) == [h EXCEPT !.grants[addr] = {}]

KeyOp(name, addr, password, duration, hash, err, ok, sig) ==
    [op |-> name, addr |-> addr,
     arg |-> [password |-> password, duration |-> duration, hash |-> hash],
     ret |-> [err |-> err, ok |-> ok, sig |-> sig]]

InitKeys ==
    /\ ks = NoKeyStore
    /\ keyDir = [p \in {} |-> 0]
    /\ clock = 1
    /\ h = KeyHistory
    /\ last = KeyOp("Init", 0, "", 0, 0, "nil", FALSE, <<>>)
    /\ nops = 0
    /\ th = NoCalls
    /\ s = NewStateDB(FALSE)
    /\ disk = EmptyDB
    /\ ldb = NoLevelDBStateDB
    /\ heap = <<>>
    /\ hs = NoStores
    /\ sy = NoSynchronizer
    /\ net = NoNetwork

\* What a step of the keystore leaves alone.
nonKeyVars == <<s, disk, nops, th, ldb, copyVars, syncVars>>

\* NewAccount: NewKey makes a key no account has.
KeyNewAccount ==
    \E password \in Passwords :
        /\ \E key \in KeyAddrs : key \notin DOMAIN ks.accounts
        /\ LET key == CHOOSE a \in KeyAddrs :
                          /\ a \notin DOMAIN ks.accounts
                          /\ \A b \in KeyAddrs : b \notin DOMAIN ks.accounts => a <= b
               r == AddAccount(ks, keyDir, clock, key, password)
           IN  /\ ks' = r.ks
               /\ keyDir' = r.dir
               /\ last' = KeyOp("NewAccount", key, password, 0, 0, r.err, TRUE, <<>>)
        /\ UNCHANGED <<h, clock, nonKeyVars>>

KeyImport ==
    \E privateKey \in KeyAddrs, password \in Passwords :
        LET r == Import(ks, keyDir, clock, privateKey, password)
        IN  /\ ks' = r.ks
            /\ keyDir' = r.dir
            /\ last' = KeyOp("Import", privateKey, password, 0, 0, r.err, r.err = "nil", <<>>)
            /\ UNCHANGED <<h, clock, nonKeyVars>>

\* Delete: os.Remove may fail.
KeyDelete ==
    \E addr \in KeyAddrs, password \in Passwords, removeFails \in BOOLEAN :
        LET r == Delete(ks, keyDir, addr, password, removeFails)
        IN  /\ ks' = r.ks
            /\ keyDir' = r.dir
            /\ h' = IF r.err \in {"nil", "ErrRemove"} THEN Revoked(addr) ELSE h
            /\ last' = KeyOp("Delete", addr, password, 0, 0, r.err, r.err = "nil", <<>>)
            /\ UNCHANGED <<clock, nonKeyVars>>

KeyTimedUnlock ==
    \E addr \in KeyAddrs, password \in Passwords, duration \in Durations :
        LET r == TimedUnlock(ks, keyDir, clock, addr, password, duration)
        IN  /\ ks' = r.ks
            /\ h' = IF r.err = "nil" THEN Granted(addr, duration) ELSE h
            /\ last' = KeyOp("TimedUnlock", addr, password, duration, 0,
                             r.err, r.err = "nil", <<>>)
            /\ UNCHANGED <<keyDir, clock, nonKeyVars>>

KeyUnlock ==
    \E addr \in KeyAddrs, password \in Passwords :
        LET r == Unlock(ks, keyDir, clock, addr, password)
        IN  /\ ks' = r.ks
            /\ h' = IF r.err = "nil" THEN Granted(addr, 0) ELSE h
            /\ last' = KeyOp("Unlock", addr, password, 0, 0, r.err, r.err = "nil", <<>>)
            /\ UNCHANGED <<keyDir, clock, nonKeyVars>>

KeyLock ==
    \E addr \in KeyAddrs :
        LET r == Lock(ks, addr)
        IN  /\ ks' = r.ks
            /\ h' = IF r.err = "nil" THEN Revoked(addr) ELSE h
            /\ last' = KeyOp("Lock", addr, "", 0, 0, r.err, r.err = "nil", <<>>)
            /\ UNCHANGED <<keyDir, clock, nonKeyVars>>

KeyIsUnlocked ==
    \E addr \in KeyAddrs :
        /\ last' = KeyOp("IsUnlocked", addr, "", 0, 0, "nil", IsUnlocked(ks, clock, addr), <<>>)
        /\ UNCHANGED <<ks, keyDir, h, clock, nonKeyVars>>

KeySignHash ==
    \E addr \in KeyAddrs, hash \in Hashes :
        LET r == SignHash(ks, clock, addr, hash)
        IN  /\ last' = KeyOp("SignHash", addr, "", 0, hash, r.err, r.err = "nil", r.sig)
            /\ UNCHANGED <<ks, keyDir, h, clock, nonKeyVars>>

\* expireLoop: the ticker fires and the expired unlocks are swept.
KeyExpire ==
    /\ ks' = expireUnlocked(ks, clock)
    /\ last' = KeyOp("expireUnlocked", 0, "", 0, 0, "nil", TRUE, <<>>)
    /\ UNCHANGED <<keyDir, h, clock, nonKeyVars>>

\* Time passes; the history forgets the unlocks that have run out.
Tick ==
    /\ clock < MaxClock
    /\ clock' = clock + 1
    /\ h' = [h EXCEPT !.grants =
                [a \in KeyAddrs |-> {g \in @[a] : IsZero(g) \/ ~(clock + 1 > g)}]]
    /\ last' = KeyOp("Tick", 0, "", 0, 0, "nil", TRUE, <<>>)
    /\ UNCHANGED <<ks, keyDir, nonKeyVars>>

NextKeys ==
    \/ KeyNewAccount
    \/ KeyImport
    \/ KeyDelete
    \/ KeyTimedUnlock
    \/ KeyUnlock
    \/ KeyLock
    \/ KeyIsUnlocked
    \/ KeySignHash
    \/ KeyExpire
    \/ Tick

SpecKeys == InitKeys /\ [][NextKeys]_vars

\* Some unlock granted to the address since it was last locked or deleted
\* has no duration, or a duration the clock is not past.
CurrentlyUnlocked(addr) ==
    \E g \in h.grants[addr] : IsZero(g) \/ ~(clock > g)

\* C25: Unlock or TimedUnlock of an account with a password that does not
\* decrypt its key file returns an error and leaves the unlocked keys and
\* their expiries as they were, whatever the account's unlock state is.
C25_WrongPassphraseFails ==
    [][(/\ last'.op \in {"Unlock", "TimedUnlock"}
        /\ last'.addr \in DOMAIN ks.accounts
        /\ LoadKey(keyDir, ks.accounts[last'.addr], last'.arg.password).err # "nil")
           => (last'.ret.err # "nil" /\ ks'.unlocked = ks.unlocked)]_vars

C32_EmptyRoot ==
    (/\ last.op = "IntermediateRoot"
     /\ \A a \in DOMAIN s.objects : s.objects[a].deleted)
        => last.ret = emptyRoot

\* The value the layers of an object hold for a key, working layer first,
\* the database last, and zero when none holds it.
Resolved(st, db, obj, key) ==
    LET rd == ReadStorageData(db, Keccak256(obj.address), Keccak256(key))
    IN  IF key \in DOMAIN obj.dirtyStorage THEN obj.dirtyStorage[key]
        ELSE IF key \in DOMAIN obj.pendingStorage THEN obj.pendingStorage[key]
        ELSE IF key \in DOMAIN obj.originStorage THEN obj.originStorage[key]
        ELSE IF st.hasDB /\ rd.found THEN rd.data
        ELSE 0

InMemory(obj, key) ==
    key \in DOMAIN obj.dirtyStorage \cup DOMAIN obj.pendingStorage \cup DOMAIN obj.originStorage

\* C33: GetState of an account the store has or loads returns the value of
\* the first of working, pending, origin and database that holds the key and
\* zero when none does; a value found in the database only is entered in
\* origin; the working and pending layers and the origin values already
\* loaded stay as they were, and so does the rest of the store.
C33_ReadResolution ==
    [][last'.op = "GetState" =>
          LET a == last'.addr
              k == last'.arg
              g == getStateObject(s, disk, a)
          IN  IF ~g.found
              THEN last'.ret = 0 /\ s' = s
              ELSE LET obj == g.s.objects[a]
                       now == s'.objects[a]
                       rd == ReadStorageData(disk, Keccak256(a), Keccak256(k))
                   IN  /\ last'.ret = Resolved(s, disk, obj, k)
                       /\ now.dirtyStorage = obj.dirtyStorage
                       /\ now.pendingStorage = obj.pendingStorage
                       /\ \A x \in DOMAIN obj.originStorage :
                             /\ x \in DOMAIN now.originStorage
                             /\ now.originStorage[x] = obj.originStorage[x]
                       /\ (~InMemory(obj, k) /\ s.hasDB /\ rd.found) =>
                             (k \in DOMAIN now.originStorage /\ now.originStorage[k] = rd.data)
                       /\ s' = [g.s EXCEPT !.objects[a].originStorage = now.originStorage]]_vars

\* A read found the working layer holding one value and the pending layer
\* another, and returned the working one.
C33_Witness ==
    /\ last.op = "GetState"
    /\ HasObj(s, last.addr)
    /\ LET obj == s.objects[last.addr]
       IN  /\ last.arg \in DOMAIN obj.dirtyStorage
           /\ last.arg \in DOMAIN obj.pendingStorage
           /\ obj.dirtyStorage[last.arg] # obj.pendingStorage[last.arg]
           /\ last.ret = obj.dirtyStorage[last.arg]

\* The store has a live object for the address, or can load one.
IsLive(st, addr) == HasObj(st, addr) /\ ~st.objects[addr].deleted
IsPersisted(st, db, addr) == st.hasDB /\ DBHas(db, AccountKey(Keccak256(addr)))

\* C34: Suicide of an address with no live and no persisted account returns
\* false and leaves the store as it was; of any other address it returns
\* true, sets suicided, zeroes the balance and enters the address in the
\* dirty set, and the nonce, the code and the storage layers are those the
\* account had (in the live map, or else in the database).
C34_Suicide ==
    [][last'.op = "Suicide" =>
          LET a == last'.addr
              base == IF IsLive(s, a) THEN s ELSE loadStateObject(s, disk, a).s
          IN  IF ~IsLive(s, a) /\ ~IsPersisted(s, disk, a)
              THEN last'.ret = FALSE /\ s' = s
              ELSE /\ last'.ret = TRUE
                   /\ s'.objects[a].suicided
                   /\ s'.objects[a].data.Balance = 0
                   /\ s'.dirty = s.dirty \cup {a}
                   /\ ~s'.objects[a].deleted
                   /\ s' = [base EXCEPT !.objects[a].suicided = TRUE,
                                        !.objects[a].data.Balance = 0,
                                        !.dirty = s'.dirty]
                   /\ s'.objects[a].data.Nonce = base.objects[a].data.Nonce
                   /\ s'.objects[a].code = base.objects[a].code]_vars

\* Suicide of an account with a nonce and code returned true, zeroed the
\* balance and kept the nonce and the code.
C34_Witness ==
    /\ last.op = "Suicide"
    /\ last.ret = TRUE
    /\ s.objects[last.addr].suicided
    /\ s.objects[last.addr].data.Nonce = 1
    /\ s.objects[last.addr].code = <<7>>
    /\ s.objects[last.addr].data.Balance = 0

\* The places of the logs a store holds: transaction and position in its list.
LogPlaces(logs) == {<<tx, i>> : tx \in DOMAIN logs, i \in 1..MaxCopyOps + 1} \cap
                   UNION {{<<tx, i>> : i \in 1..Len(logs[tx])} : tx \in DOMAIN logs}

\* C35: no two logs held by one store, an original or a Copy, carry the
\* same index, and the log AddLog has just appended carries the store's
\* current transaction hash and index.
C35_LogIndex ==
    /\ \A w \in DOMAIN hs :
          LET logs == HeapView(heap, hs[w]).logs
          IN  \A p, q \in LogPlaces(logs) :
                 p # q => logs[p[1]][p[2]].Index # logs[q[1]][q[2]].Index
    /\ last.op = "AddLog" =>
          LET st == hs[h.on]
              logs == HeapView(heap, st).logs[st.txHash]
          IN  /\ logs[Len(logs)].TxHash = st.txHash
              /\ logs[Len(logs)].TxIndex = st.txIndex
              /\ logs[Len(logs)].Index = st.logSize - 1

\* The address was suicided and removed by Finalise, and not written since:
\* a write replaces the object.
Gone(st, addr) ==
    HasObj(st, addr) /\ st.objects[addr].suicided /\ st.objects[addr].deleted

\* C39: a read of an address that was suicided and finalised and not written
\* since returns the zero or empty value and leaves the address gone, whatever
\* the database still holds for it.
C39_SuicidedStaysGone ==
    [][(/\ last'.op \in {"GetBalance", "GetNonce", "GetCode", "GetState"}
        /\ Gone(s, last'.addr))
          => /\ last'.ret = (IF last'.op = "GetCode" THEN <<>> ELSE 0)
             /\ Gone(s', last'.addr)
             /\ ~Exist(s', disk, last'.addr).ret]_vars

\* C40: in the LevelDB-backed store, Exist of an address that was never
\* written and has no persisted record is false whatever was read before,
\* and a Commit adds no record for such an address.
C40_ReadsLeaveNoTrace ==
    /\ []((last.op = "LevelDB.Exist" /\ last.addr \notin h.written \cup h.persisted)
             => last.ret = FALSE)
    /\ [][last'.op = "LevelDB.Commit"
             => \A a \in Addrs \ (h.written \cup h.persisted) :
                    a \notin PersistedAddrs(disk')]_vars

\* C31: when the run loop goes from one iteration to the peer selection of
\* the next, the iteration behind it slept or requested or inserted a block,
\* and it slept if its attempt had nothing to fetch or ran to completion.
C31_NoBusySpin ==
    [][\A r \in 1..Len(sy.runs) :
          LET run == sy.runs[r]
          IN  (run.pc = "top" /\ sy'.runs[r].pc = "find" /\ run.iters >= 1) =>
                 /\ run.waited \/ run.reqs # <<>> \/ run.ins # <<>>
                 /\ (run.completed \/ (run.reqs = <<>> /\ run.ins = <<>>)) => run.waited]_vars

\* The done channel Start made for the r-th run: Start makes the done and
\* the cancellation channel of a run together, in this order.
OwnDoneCh(r) == 2 * r - 1

\* C36: no close of a closed channel happens, and a done channel that is
\* closed was closed by the run it was made for.
C36_CloseOnce ==
    /\ net.panic = "none"
    /\ \A r \in 1..Len(sy.runs) :
          net.chans[OwnDoneCh(r)] => sy.runs[r].pc = "dead"

\* C37: whenever Progress can be read while a goroutine is inside syncWithPeer
\* past line 178, startBlock <= currentBlock <= targetBlock, and no step taken
\* inside one attempt lowers currentBlock; the three stores that open an
\* attempt are included.
InAttempt(run) == run.pc \in AttemptPcs \ {"begin"}
C37_ProgressOrdering ==
    /\ []((\E r \in 1..Len(sy.runs) : InAttempt(sy.runs[r]))
             => /\ Progress.start <= Progress.current
                /\ Progress.current <= Progress.target)
    /\ [][\A r \in 1..Len(sy.runs) :
             (InAttempt(sy.runs[r]) /\ InAttempt(sy'.runs[r]))
                => sy'.currentBlock >= sy.currentBlock]_vars

\* C38: the pending-block cache is empty when a goroutine spawned by Start
\* begins, and while an attempt is fetching it holds no entry for a number
\* below the fetch position, so that no block left over from an earlier run
\* or an earlier position is there to be inserted later.
Fetching(run) == run.pc \in {"loop", "chk", "cache", "send", "poll", "select",
                             "deadline", "insert"}
CacheEmptyAtRunStart ==
    Len(sy'.runs) > Len(sy.runs) => DOMAIN sy'.pendingBlocks = {}
NothingBehindFetch ==
    \A r \in 1..Len(sy.runs) :
       Fetching(sy.runs[r]) =>
          \A n \in DOMAIN sy.pendingBlocks : n >= sy.runs[r].num
C38_NoStaleBlocks == [][CacheEmptyAtRunStart]_vars /\ []NothingBehindFetch

====
